---- MODULE Spec2Model ----
(***************************************************************************)
(* A state-machine model of the dogehouse.py client session engine         *)
(* (src/dogehouse/client.py): the fetch correlator, the inbound            *)
(* dispatcher, the event-wait registry, the command registry and the       *)
(* command router.                                                         *)
(*                                                                         *)
(* Python strings are sequences of one-character strings, so that          *)
(* lower(), strip(), split(), startswith() and slicing are computed and    *)
(* not assumed.  Python's None is the value None below.                    *)
(***************************************************************************)
EXTENDS Integers, Sequences, FiniteSets, TLC

\* ------------------------------------------------------------------ bounds

\* Each specification bounds the uuid4() values drawn (fetch ids and waiter
\* ids) and the inbound frames received in one behaviour.
FetchMaxIds == 2
FetchMaxFrames == 2
WaitMaxIds == 2
WaitMaxFrames == 2
ScanMaxIds == 1
ScanMaxFrames == 3
CmdMaxFrames == 3
CmdMaxRegs == 2
RegMaxRegs == 3
BoundMaxFrames == 3
BoundMaxRegs == 2
RosterMaxFrames == 5
LifeMaxFrames == 2
LifeMaxIds == 2
ErrMaxFrames == 4
ErrMaxRegs == 2
SendMaxWords == 2
UsersMaxFrames == 5
GreetMaxFrames == 4
GreetMaxRegs == 2
BindMaxFrames == 3
BindMaxRegs == 2
ListenMaxFrames == 2
ListenMaxIds == 2
SendMaxFrames == 2
JoinMaxFrames == 4
JoinMaxIds == 2
AdminMaxFrames == 6
AdminMaxIds == 2
HandlersMaxFrames == 4
HandlersMaxRegs == 1
SessionMaxIds == 2
SessionMaxFrames == 2
SpellMaxFrames == 3
SpellMaxRegs == 1

\* Largest value of time() a behaviour reaches.
CmdMaxTime == 2

\* ----------------------------------------------------------------- strings

None == <<"None">>

UpperCase == <<"A", "B", "C", "D", "E", "F", "G", "H", "I", "J", "K", "L", "M",
               "N", "O", "P", "Q", "R", "S", "T", "U", "V", "W", "X", "Y", "Z">>
LowerCase == <<"a", "b", "c", "d", "e", "f", "g", "h", "i", "j", "k", "l", "m",
               "n", "o", "p", "q", "r", "s", "t", "u", "v", "w", "x", "y", "z">>

LowerChar(c) ==
    IF \E i \in 1..26 : UpperCase[i] = c
    THEN LowerCase[CHOOSE i \in 1..26 : UpperCase[i] = c]
    ELSE c

\* str.lower()
Lower(s) == [i \in 1..Len(s) |-> LowerChar(s[i])]

IsSpace(c) == c \in {" ", "\t", "\n"}

RECURSIVE LStrip(_)
LStrip(s) == IF s # <<>> /\ IsSpace(Head(s)) THEN LStrip(Tail(s)) ELSE s

RECURSIVE RStrip(_)
RStrip(s) ==
    IF s # <<>> /\ IsSpace(s[Len(s)]) THEN RStrip(SubSeq(s, 1, Len(s) - 1)) ELSE s

\* str.strip()
Strip(s) == RStrip(LStrip(s))

\* s[n::] for n >= 0
From(s, n) == SubSeq(s, n + 1, Len(s))

\* str.startswith(p)
StartsWith(s, p) == Len(s) >= Len(p) /\ SubSeq(s, 1, Len(p)) = p

\* sep.join(parts)
RECURSIVE Join(_, _)
Join(parts, sep) ==
    IF parts = <<>> THEN <<>>
    ELSE IF Len(parts) = 1 THEN parts[1]
    ELSE parts[1] \o sep \o Join(Tail(parts), sep)

\* str.split(" "): the pieces between single spaces, empty pieces kept.
RECURSIVE SplitAcc(_, _, _)
SplitAcc(s, cur, acc) ==
    IF s = <<>> THEN Append(acc, cur)
    ELSE IF Head(s) = " " THEN SplitAcc(Tail(s), <<>>, Append(acc, cur))
    ELSE SplitAcc(Tail(s), Append(cur, Head(s)), acc)

Split(s) == SplitAcc(s, <<>>, <<>>)

\* ------------------------------------------------------------------- maps

\* dict[k] = v
Put(f, k, v) == [x \in DOMAIN f \cup {k} |-> IF x = k THEN v ELSE f[x]]

\* del dict[k]
Del(f, k) == [x \in DOMAIN f \ {k} |-> f[x]]

EmptyMap == [x \in {} |-> 0]

Range(s) == {s[i] : i \in DOMAIN s}

\* list.remove(x): the first element equal to x is removed.
RECURSIVE ListRemove(_, _)
ListRemove(s, x) ==
    IF s = <<>> THEN s
    ELSE IF Head(s) = x THEN Tail(s)
    ELSE <<Head(s)>> \o ListRemove(Tail(s), x)

\* ------------------------------------------------------------ event names

ON_READY == <<"o", "n", "_", "r", "e", "a", "d", "y">>

ON_ROOMS_FETCH ==
    <<"o", "n", "_", "r", "o", "o", "m", "s", "_", "f", "e", "t", "c", "h">>

ON_USER_FETCH ==
    <<"o", "n", "_", "u", "s", "e", "r", "_", "f", "e", "t", "c", "h">>

ON_USER_BAN == <<"o", "n", "_", "u", "s", "e", "r", "_", "b", "a", "n">>

ON_MESSAGE_DELETE ==
    <<"o", "n", "_", "m", "e", "s", "s", "a", "g", "e", "_",
      "d", "e", "l", "e", "t", "e">>

ON_MESSAGE == <<"o", "n", "_", "m", "e", "s", "s", "a", "g", "e">>

ON_COOLDOWN_TRIGGER ==
    <<"o", "n", "_", "c", "o", "o", "l", "d", "o", "w", "n", "_",
      "t", "r", "i", "g", "g", "e", "r">>

ON_ERROR == <<"o", "n", "_", "e", "r", "r", "o", "r">>

ON_ROOM_JOIN ==
    <<"o", "n", "_", "r", "o", "o", "m", "_", "j", "o", "i", "n">>

ON_USER_JOIN ==
    <<"o", "n", "_", "u", "s", "e", "r", "_", "j", "o", "i", "n">>

ON_USER_LEAVE ==
    <<"o", "n", "_", "u", "s", "e", "r", "_", "l", "e", "a", "v", "e">>

ON_ROOM_USERS_FETCH ==
    <<"o", "n", "_", "r", "o", "o", "m", "_", "u", "s", "e", "r", "s", "_", "f", "e", "t", "c", "h">>

ON_PERMISSION_CHANGE ==
    <<"o", "n", "_", "p", "e", "r", "m", "i", "s", "s", "i", "o", "n", "_", "c", "h", "a", "n", "g", "e">>

ON_PERMISSIONS_CHANGE ==
    <<"o", "n", "_", "p", "e", "r", "m", "i", "s", "s", "i", "o", "n", "s", "_", "c", "h", "a", "n", "g", "e">>

\* ------------------------------------------------------------------ state

VARIABLES
    active,                 \* self.__active
    socket,                 \* self.__socket: "none" or "open"
    user,                   \* self.user
    room,                   \* self.room
    rooms,                  \* self.rooms
    fetches,                \* self.__fetches: fetch id -> operation name
    uuid,                   \* number of uuid4() values drawn so far
    sending,                \* __fetch calls suspended in "await self.__send"
    waiting_for,            \* self.__waiting_for: event name -> waiter ids
    waiting_for_fetches,    \* self.__waiting_for_fetches: waiter id -> buffer
    waiters,                \* the wait_for calls: waiter id -> its locals
    listeners,              \* the listeners registry: name -> bound flag
    commands,               \* the commands registry: name -> entry
    command_cooldown_cache, \* self.__command_cooldown_cache
    now,                    \* time()
    mainpc,                 \* where DogeClient.__main is
    evpc,                   \* where the event_loop task is
    toppc,                  \* where the get_top_rooms_loop task is
    result,                 \* how run() has ended, "running" until it has
    closed,                 \* how the remote side has closed the connection
    close_called,           \* history: close() has set self.__active to False
    last,                   \* the operation the last step performed
    issued,                 \* history: fetch id -> op of every frame sent
    replied,                \* history: fetch ids of the fetch_done frames received
    nframes,                \* history: inbound frames received
    nregs,                  \* history: command registrations made
    cmdlog,                 \* history: the outcome of every execute_command
    sentops,                \* history: the op of every frame handed to the transport
    converting              \* the command invocation suspended in a conversion, if any

vars ==
    <<active, socket, user, room, rooms, fetches, uuid, sending, waiting_for,
      waiting_for_fetches, waiters, listeners, commands,
      command_cooldown_cache, now, mainpc, evpc, toppc, result, closed,
      close_called, last, issued, replied, nframes, nregs, cmdlog, sentops,
      converting>>

sessionVars == <<user, room, rooms>>
lifeVars == <<active, socket, mainpc, toppc, result, closed, close_called>>
fetchVars == <<fetches, uuid, sending, issued>>
waitVars == <<waiting_for, waiting_for_fetches, waiters>>
cmdVars == <<commands, command_cooldown_cache, cmdlog, nregs>>

\* What one step did: the operation, its input, the exception it raised
\* ("none" when it raised nothing), the events it fired through
\* execute_listener, the tasks it scheduled with ensure_future, the frames it
\* sent and, for a fetch_done frame, the operation the id resolved to.
Did(op, input, raised, fired, scheduled, sent, resolved) ==
    [op |-> op, input |-> input, raised |-> raised, fired |-> fired,
     scheduled |-> scheduled, sent |-> sent, resolved |-> resolved]

\* The ops of the frames one step handed to the transport.
SentOps(frames) == {frames[i].op : i \in 1..Len(frames)}

\* ----------------------------------------------------------------- entities

\* self.user before auth-good: None.
NoUser == [kind |-> "None", id |-> None, username |-> None,
           displayname |-> None, current_room_id |-> None,
           is_mod |-> FALSE, is_admin |-> FALSE, is_speaker |-> FALSE]

U1 == <<"u", "1">>
U2 == <<"u", "2">>
U3 == <<"u", "3">>
R1 == <<"r", "1">>

\* The "user" objects inbound frames carry.
UserDict(id, current) ==
    [id |-> id, username |-> id, displayName |-> id, currentRoomId |-> current,
     roomPermissions |-> [isMod |-> FALSE, isSpeaker |-> FALSE]]

UserDicts == {UserDict(U1, None), UserDict(U2, R1)}

\* User.from_dict with Permission.from_dict: is_admin is always False.
UserFromDict(d) ==
    [kind |-> "User", id |-> d.id, username |-> d.username,
     displayname |-> d.displayName, current_room_id |-> d.currentRoomId,
     is_mod |-> d.roomPermissions.isMod, is_admin |-> FALSE,
     is_speaker |-> d.roomPermissions.isSpeaker]

\* The "room" objects inbound frames carry.
RoomDict(id, creator) == [id |-> id, creatorId |-> creator, peoplePreviewList |-> <<>>]

RoomDicts == {RoomDict(R1, U1)}

\* UserPreview.from_dict
UserPreviewFromDict(d) ==
    [kind |-> "UserPreview", id |-> d.id, username |-> None,
     displayname |-> d.displayName, current_room_id |-> None,
     is_mod |-> FALSE, is_admin |-> FALSE, is_speaker |-> FALSE]

\* self.room while no room has been joined: None.
NoRoom == [kind |-> "None"]

\* Room.from_dict
RoomFromDict(d) ==
    [kind |-> "Room", id |-> d.id, creator_id |-> d.creatorId,
     users |-> [i \in 1..Len(d.peoplePreviewList) |->
                   UserPreviewFromDict(d.peoplePreviewList[i])]]

\* The connection while the remote side has not closed it.
NotClosed == [kind |-> "none", code |-> 0]

\* ------------------------------------------------------------------- Init

Init ==
    /\ active = FALSE
    /\ socket = "none"
    /\ user = NoUser
    /\ room = NoRoom
    /\ rooms = <<>>
    /\ fetches = EmptyMap
    /\ uuid = 0
    /\ sending = {}
    /\ waiting_for = EmptyMap
    /\ waiting_for_fetches = EmptyMap
    /\ waiters = EmptyMap
    /\ listeners = EmptyMap
    /\ commands = EmptyMap
    /\ command_cooldown_cache = EmptyMap
    /\ now = 0
    /\ mainpc = "init"
    /\ evpc = "init"
    /\ toppc = "init"
    /\ result = "none"
    /\ closed = NotClosed
    /\ close_called = FALSE
    /\ last = Did("init", <<>>, "none", <<>>, <<>>, <<>>, "none")
    /\ issued = EmptyMap
    /\ replied = {}
    /\ nframes = 0
    /\ nregs = 0
    /\ cmdlog = <<>>
    /\ sentops = {}
    /\ converting = <<>>

\* --------------------------------------------------------------- lifecycle

AuthFrame == [op |-> "auth", fetchId |-> None]

\* __main up to its first suspension: the connection is open, the session is
\* active and the auth frame is handed to the transport.
Connect ==
    /\ mainpc = "init"
    /\ active' = TRUE
    /\ socket' = "open"
    /\ mainpc' = "auth"
    /\ result' = "running"
    /\ last' = Did("connect", <<>>, "none", <<>>, <<>>, <<AuthFrame>>, "none")
    /\ sentops' = sentops \cup SentOps(last'.sent)
    /\ UNCHANGED <<sessionVars, fetchVars, waitVars, cmdVars, listeners, now,
                   evpc, toppc, closed, close_called, replied, nframes,
                   converting>>

\* __main resumes after the auth frame: the tasks are created and the
\* event_loop task reaches its first "await self.__socket.recv()".
StartTasks ==
    /\ mainpc = "auth"
    /\ mainpc' = "heartbeat"
    /\ evpc' = IF active THEN "recv" ELSE "done"
    /\ toppc' = "start"
    /\ last' = Did("start_tasks", <<>>, "none", <<>>, <<>>, <<>>, "none")
    /\ sentops' = sentops \cup SentOps(last'.sent)
    /\ UNCHANGED <<active, socket, result, closed, close_called, sessionVars,
                   fetchVars, waitVars, cmdVars, listeners, now, replied, nframes,
                   converting>>

\* The event_loop task after a frame when its loop tested nothing.
AfterFrameNoTest(raised) == IF raised # "none" THEN "crashed" ELSE "recv"

\* An event_loop task that awaits the handlers it has started.
AfterFrameAwaited(raised) == IF raised # "none" THEN "crashed" ELSE "awaiting"

\* The event_loop task after one frame: back to recv while active, ended by
\* an exception that left the handler, or finished.
AfterFrame(raised) ==
    IF raised # "none" THEN "crashed" ELSE IF active THEN "recv" ELSE "done"

\* ------------------------------------------------- closing and the run's end

\* The close code that signals invalid credentials.
AuthFailureCode == 4004

\* The remote side closes the connection: cleanly (ConnectionClosedOK) or
\* with an error (ConnectionClosedError) that carries a close code.
RemoteClose(kind, code) ==
    /\ mainpc \in {"heartbeat", "ping", "sleep"}
    /\ closed = NotClosed
    /\ closed' = [kind |-> kind, code |-> code]
    /\ last' = Did("remote_close", code, "none", <<>>, <<>>, <<>>, "none")
    /\ sentops' = sentops \cup SentOps(last'.sent)
    /\ UNCHANGED <<active, socket, mainpc, toppc, result, close_called,
                   sessionVars, fetchVars, waitVars, cmdVars, listeners, now,
                   evpc, replied, nframes, converting>>

\* The exception a send or a recv on the closed connection raises.
ClosedRaised == IF closed.kind = "ok" THEN "ConnectionClosedOK" ELSE "ConnectionClosedError"

\* self.__active after the except clauses of __main: only the clean closure
\* clears it.
ClosureActive(kind, act) == IF kind = "ok" THEN FALSE ELSE act

\* An except clause that raises for no close code.
ClosureNeverRaises(kind, code) == "returned"

\* How run() ends when the closure reaches the except clauses of __main.
ClosureResult(kind, code) ==
    IF kind = "error" /\ code = AuthFailureCode THEN "InvalidAccessToken" ELSE "returned"

\* heartbeat() at the head of its loop, first or after a sleep. While the
\* session is active "ping" is handed to the transport; on a closed
\* connection the send raises and __main's except clauses end the run. Once
\* self.__active is False heartbeat returns and __main goes on to
\* "await event_loop_task()": the task object is called, which raises
\* TypeError out of run().
Heartbeat ==
    /\ mainpc \in {"heartbeat", "sleep"}
    /\ result = "running"
    /\ IF ~active
       THEN /\ mainpc' = "ended"
            /\ result' = "TypeError"
            /\ last' = Did("heartbeat", <<>>, "TypeError", <<>>, <<>>, <<>>, "none")
            /\ UNCHANGED active
       ELSE IF closed # NotClosed
       THEN /\ mainpc' = "ended"
            /\ result' = ClosureResult(closed.kind, closed.code)
            /\ active' = ClosureActive(closed.kind, active)
            /\ last' = Did("heartbeat", <<>>, ClosedRaised, <<>>, <<>>, <<>>, "none")
       ELSE /\ mainpc' = "ping"
            /\ last' = Did("heartbeat", <<>>, "none", <<>>, <<>>, <<"ping">>, "none")
            /\ UNCHANGED <<active, result>>
    /\ sentops' = sentops \cup (IF last'.sent = <<>> THEN {} ELSE {"ping"})
    /\ UNCHANGED <<socket, toppc, closed, close_called, sessionVars, fetchVars,
                   waitVars, cmdVars, listeners, now, evpc, replied, nframes,
                   converting>>

\* heartbeat() resumes after "await self.__socket.send": it goes to sleep, or
\* the send raises because the connection was closed meanwhile.
PingDone ==
    /\ mainpc = "ping"
    /\ result = "running"
    /\ IF closed # NotClosed
       THEN /\ mainpc' = "ended"
            /\ result' = ClosureResult(closed.kind, closed.code)
            /\ active' = ClosureActive(closed.kind, active)
            /\ last' = Did("ping_done", <<>>, ClosedRaised, <<>>, <<>>, <<>>, "none")
       ELSE /\ mainpc' = "sleep"
            /\ last' = Did("ping_done", <<>>, "none", <<>>, <<>>, <<>>, "none")
            /\ UNCHANGED <<active, result>>
    /\ sentops' = sentops \cup SentOps(last'.sent)
    /\ UNCHANGED <<socket, toppc, closed, close_called, sessionVars, fetchVars,
                   waitVars, cmdVars, listeners, now, evpc, replied, nframes,
                   converting>>

\* The event_loop task at "await self.__socket.recv()" on a closed
\* connection: the exception ends the task.
RecvClosed ==
    /\ evpc = "recv"
    /\ closed # NotClosed
    /\ evpc' = "crashed"
    /\ last' = Did("recv_closed", <<>>, ClosedRaised, <<>>, <<>>, <<>>, "none")
    /\ sentops' = sentops \cup SentOps(last'.sent)
    /\ UNCHANGED <<lifeVars, sessionVars, fetchVars, waitVars, cmdVars, listeners,
                   now, replied, nframes, converting>>

\* A close() that raises nothing.
CloseNeverRaises(sock) == "none"

\* What close() raises: the socket is no websocket protocol object.
CloseRaised(sock) == IF sock = "none" THEN "NoConnectionException" ELSE "none"

\* close()
Close ==
    /\ result \in {"none", "running"}
    /\ active' = IF CloseRaised(socket) = "none" THEN FALSE ELSE active
    /\ close_called' = IF CloseRaised(socket) = "none" THEN TRUE ELSE close_called
    /\ last' = Did("close", <<>>, CloseRaised(socket), <<>>, <<>>, <<>>, "none")
    /\ sentops' = sentops \cup SentOps(last'.sent)
    /\ UNCHANGED <<socket, mainpc, toppc, result, closed, sessionVars, fetchVars,
                   waitVars, cmdVars, listeners, now, evpc, replied, nframes,
                   converting>>

\* -------------------------------------------------------- execute_listener

Event(name, args) == [name |-> name, args |-> args]

\* A delivery that reaches only the first waiter registered on the event.
AppendToFirstWaiter(wff, ids, args) ==
    IF ids = <<>> THEN wff
    ELSE Put(wff, Head(ids),
             IF Head(ids) \in DOMAIN wff
             THEN Append(wff[Head(ids)], args)
             ELSE <<args>>)

\* The loop of execute_listener over self.__waiting_for[base]: the arguments
\* are appended to the buffer of each waiter id, a buffer being created for
\* an id that has none.
RECURSIVE AppendToWaiters(_, _, _)
AppendToWaiters(wff, ids, args) ==
    IF ids = <<>> THEN wff
    ELSE AppendToWaiters(
             Put(wff, Head(ids),
                 IF Head(ids) \in DOMAIN wff
                 THEN Append(wff[Head(ids)], args)
                 ELSE <<args>>),
             Tail(ids), args)

\* An execute_listener that buffers only the events that have a listener.
BuffersWhenListened(wf, wff, listener, args) ==
    LET listener_name == Lower(listener)
        base == From(listener_name, 3)
    IN  IF listener_name \in DOMAIN listeners /\ base \in DOMAIN wf
        THEN AppendToWaiters(wff, wf[base], args)
        ELSE wff

\* The waiter buffers after execute_listener(listener, *args).
ExecuteListenerBuffers(wf, wff, listener, args) ==
    LET listener_name == Lower(listener)
        base == From(listener_name, 3)
    IN  IF base \in DOMAIN wf THEN AppendToWaiters(wff, wf[base], args) ELSE wff

\* The listener task execute_listener(listener, *args) schedules, if any: a
\* bound listener gets the arguments, an unbound one the session first.
ExecuteListenerTasks(ls, listener, args) ==
    LET listener_name == Lower(listener)
    IN  IF listener_name \in DOMAIN ls
        THEN <<[fn |-> listener_name,
                args |-> IF ls[listener_name] THEN args ELSE <<"self">> \o args]>>
        ELSE <<>>

\* The waiter buffers after a sequence of execute_listener calls.
RECURSIVE FireAll(_, _, _)
FireAll(wf, wff, events) ==
    IF events = <<>> THEN wff
    ELSE FireAll(wf,
                 ExecuteListenerBuffers(wf, wff, Head(events).name, Head(events).args),
                 Tail(events))

\* The listener tasks a sequence of execute_listener calls schedules.
RECURSIVE TasksOf(_, _)
TasksOf(ls, events) ==
    IF events = <<>> THEN <<>>
    ELSE ExecuteListenerTasks(ls, Head(events).name, Head(events).args)
         \o TasksOf(ls, Tail(events))

\* ----------------------------------------------------------------- __fetch

FetchFrame(op, id) == [op |-> op, fetchId |-> id]

\* __fetch up to its suspension in "await self.__send": a fresh id is drawn
\* and the frame is handed to the transport; the id is not recorded yet.
\* Without a socket self.__socket.send raises AttributeError.
FetchSend(op, caller, id) ==
    /\ uuid' = id
    /\ IF socket = "open"
       THEN /\ sending' = sending \cup {[id |-> id, op |-> op, caller |-> caller]}
            /\ issued' = Put(issued, id, op)
       ELSE UNCHANGED <<sending, issued>>
    /\ UNCHANGED fetches

FetchRaised == IF socket = "open" THEN "none" ELSE "AttributeError"

\* A send that hands the frame over whether or not there is a socket.
FetchSentUnconnected(op, id) == <<FetchFrame(op, id)>>

\* The frames __fetch hands to the transport.
FetchSent(op, id) == IF socket = "open" THEN <<FetchFrame(op, id)>> ELSE <<>>

\* get_top_public_rooms(cursor)
GetTopPublicRooms ==
    /\ FetchSend("get_top_public_rooms", 0, uuid + 1)
    /\ last' = Did("get_top_public_rooms", <<>>, FetchRaised, <<>>, <<>>,
                   FetchSent("get_top_public_rooms", uuid + 1), "none")
    /\ sentops' = sentops \cup SentOps(last'.sent)
    /\ UNCHANGED <<lifeVars, sessionVars, waitVars, cmdVars, listeners, now,
                   evpc, replied, nframes, converting>>

RoomNameMin == 2
RoomNameMax == 60

\* A create_room that sends whatever the length of the name.
CreateRoomAnyLength(n) ==
    /\ FetchSend("create_room", 0, uuid + 1)
    /\ last' = Did("create_room", n, FetchRaised, <<>>, <<>>,
                   FetchSent("create_room", uuid + 1), "none")
    /\ sentops' = sentops \cup SentOps(last'.sent)
    /\ UNCHANGED <<lifeVars, sessionVars, waitVars, cmdVars, listeners, now,
                   evpc, replied, nframes, converting>>

\* create_room(name) for a name of n characters.
CreateRoom(n) ==
    /\ IF RoomNameMin <= n /\ n <= RoomNameMax
       THEN /\ FetchSend("create_room", 0, uuid + 1)
            /\ last' = Did("create_room", n, FetchRaised, <<>>, <<>>,
                           FetchSent("create_room", uuid + 1), "none")
       ELSE /\ last' = Did("create_room", n, "InvalidSize", <<>>, <<>>, <<>>, "none")
            /\ UNCHANGED fetchVars
    /\ sentops' = sentops \cup SentOps(last'.sent)
    /\ UNCHANGED <<lifeVars, sessionVars, waitVars, cmdVars, listeners, now,
                   evpc, replied, nframes, converting>>

\* The waiters after the __fetch a wait_for call issued has resumed: the
\* call enters its polling loop.
ResumeWaiter(ws, caller) ==
    IF caller \in DOMAIN ws THEN [ws EXCEPT ![caller].pc = "sleeping"] ELSE ws

\* __fetch resumes after the send: the id is recorded under the operation.
FetchResume(s) ==
    /\ s \in sending
    /\ fetches' = Put(fetches, s.id, s.op)
    /\ sending' = sending \ {s}
    /\ waiters' = ResumeWaiter(waiters, s.caller)
    /\ last' = Did("fetch_resume", s.id, "none", <<>>, <<>>, <<>>, "none")
    /\ sentops' = sentops \cup SentOps(last'.sent)
    /\ UNCHANGED <<lifeVars, sessionVars, uuid, issued, waiting_for,
                   waiting_for_fetches, cmdVars, listeners, now, evpc, replied,
                   nframes, converting>>

\* The caller recorded for the __fetch of get_top_rooms_loop.
TopRoomsCaller == 0 - 1

\* get_top_rooms_loop() at the head of its loop, first or after a sleep:
\* while the session is active and has no room it calls
\* get_top_public_rooms and is suspended in the send.
TopRooms ==
    /\ toppc \in {"start", "sleep"}
    /\ result = "running"
    /\ IF active /\ room = NoRoom
       THEN IF closed # NotClosed
            THEN /\ toppc' = "crashed"
                 /\ uuid' = uuid + 1
                 /\ last' = Did("top_rooms", <<>>, ClosedRaised, <<>>, <<>>, <<>>, "none")
                 /\ UNCHANGED <<fetches, sending, issued>>
            ELSE /\ toppc' = "send"
                 /\ FetchSend("get_top_public_rooms", TopRoomsCaller, uuid + 1)
                 /\ last' = Did("top_rooms", <<>>, "none", <<>>, <<>>,
                                FetchSent("get_top_public_rooms", uuid + 1), "none")
       ELSE /\ toppc' = "done"
            /\ last' = Did("top_rooms", <<>>, "none", <<>>, <<>>, <<>>, "none")
            /\ UNCHANGED fetchVars
    /\ sentops' = sentops \cup SentOps(last'.sent)
    /\ UNCHANGED <<active, socket, mainpc, result, closed, close_called,
                   sessionVars, waitVars, cmdVars, listeners, now, evpc, replied,
                   nframes, converting>>

\* The __fetch of get_top_rooms_loop resumes after the send: the id is
\* recorded and the loop goes to sleep.
TopRoomsResume(s) ==
    /\ s \in sending
    /\ s.caller = TopRoomsCaller
    /\ toppc = "send"
    /\ result = "running"
    /\ fetches' = Put(fetches, s.id, s.op)
    /\ sending' = sending \ {s}
    /\ toppc' = "sleep"
    /\ last' = Did("fetch_resume", s.id, "none", <<>>, <<>>, <<>>, "none")
    /\ sentops' = sentops \cup SentOps(last'.sent)
    /\ UNCHANGED <<active, socket, mainpc, result, closed, close_called,
                   sessionVars, uuid, issued, waitVars, cmdVars, listeners, now,
                   evpc, replied, nframes, converting>>

\* ------------------------------------------------------ inbound dispatcher

\* "auth-good": self.user is set and on_ready fires.
RecvAuthGood(d) ==
    /\ evpc = "recv"
    /\ nframes' = nframes + 1
    /\ user' = UserFromDict(d)
    /\ waiting_for_fetches' =
           FireAll(waiting_for, waiting_for_fetches, <<Event(ON_READY, <<>>)>>)
    /\ last' = Did("auth-good", d, "none", <<Event(ON_READY, <<>>)>>,
                   TasksOf(listeners, <<Event(ON_READY, <<>>)>>), <<>>, "none")
    /\ evpc' = AfterFrame("none")
    /\ sentops' = sentops \cup SentOps(last'.sent)
    /\ UNCHANGED <<lifeVars, room, rooms, fetchVars, waiting_for, waiters,
                   cmdVars, listeners, now, replied, converting>>

\* self.__fetches.get(fetchId, False)
FetchesGet(fetchId) == IF fetchId \in DOMAIN fetches THEN fetches[fetchId] ELSE "False"

\* A fetch_done branch that leaves the id in the pending map.
FetchesKept(fetchId) == fetches

\* self.__fetches after the fetch_done branch looked fetchId up.
FetchesAfterDone(fetchId) ==
    IF fetchId \in DOMAIN fetches THEN Del(fetches, fetchId) ELSE fetches

\* The roster after a get_user_profile reply: the entry with the user's id
\* is replaced when the user is in the current room.
ReplaceUser(users, usr) ==
    [i \in 1..Len(users) |-> IF users[i].id # usr.id THEN users[i] ELSE usr]

\* The exception the fetch_done branch raises: self.room.id while self.room
\* is None.
FetchDoneRaised(fetch) ==
    IF fetch = "get_user_profile" /\ room = NoRoom THEN "AttributeError" ELSE "none"

\* The events the fetch_done branch fires for the resolved operation.
FetchDoneEvents(fetch, d) ==
    IF fetch = "get_top_public_rooms" THEN <<Event(ON_ROOMS_FETCH, <<>>)>>
    ELSE IF fetch = "get_user_profile" /\ room # NoRoom
    THEN <<Event(ON_USER_FETCH, <<UserFromDict(d.user)>>)>>
    ELSE <<>>

\* "fetch_done" carrying fetchId and the payload d.
RecvFetchDone(fetchId, d) ==
    LET fetch == FetchesGet(fetchId)
        events == FetchDoneEvents(fetch, d)
    IN  /\ evpc = "recv"
        /\ nframes' = nframes + 1
        /\ replied' = replied \cup {fetchId}
        /\ fetches' = FetchesAfterDone(fetchId)
        /\ rooms' = IF fetch = "get_top_public_rooms"
                    THEN [i \in 1..Len(d.rooms) |-> RoomFromDict(d.rooms[i])]
                    ELSE rooms
        /\ room' = IF fetch = "create_room"
                   THEN [RoomFromDict(d.room) EXCEPT !.users = <<user>>]
                   ELSE IF fetch = "get_user_profile" /\ room # NoRoom
                           /\ UserFromDict(d.user).current_room_id = room.id
                   THEN [room EXCEPT !.users = ReplaceUser(room.users, UserFromDict(d.user))]
                   ELSE room
        /\ waiting_for_fetches' = FireAll(waiting_for, waiting_for_fetches, events)
        /\ last' = Did("fetch_done", fetchId, FetchDoneRaised(fetch), events,
                       TasksOf(listeners, events), <<>>, fetch)
        /\ evpc' = AfterFrame(FetchDoneRaised(fetch))
        /\ sentops' = sentops \cup SentOps(last'.sent)
        /\ UNCHANGED <<lifeVars, user, uuid, sending, issued, waiting_for,
                       waiters, cmdVars, listeners, now, converting>>

\* The payloads of the fetch_done frames the server sends.
Payloads == {[rooms |-> rs, room |-> r, user |-> u] :
                rs \in {<<>>, <<RoomDict(R1, U1)>>}, r \in RoomDicts, u \in UserDicts}

\* The fetch ids an inbound fetch_done frame may carry: an id of a frame this
\* session has sent (replied to once or again), or 0, an id it never issues.
ReplyIds == DOMAIN issued \cup {0}

\* "chat_user_banned": on_user_ban(userId) fires.
RecvChatUserBanned(userId) ==
    LET events == <<Event(ON_USER_BAN, <<userId>>)>>
    IN  /\ evpc = "recv"
        /\ nframes' = nframes + 1
        /\ waiting_for_fetches' = FireAll(waiting_for, waiting_for_fetches, events)
        /\ last' = Did("chat_user_banned", userId, "none", events,
                       TasksOf(listeners, events), <<>>, "none")
        /\ evpc' = AfterFrame("none")
        /\ sentops' = sentops \cup SentOps(last'.sent)
        /\ UNCHANGED <<lifeVars, sessionVars, fetchVars, waiting_for, waiters,
                       cmdVars, listeners, now, replied, converting>>

\* "message_deleted": on_message_delete(deleterId, messageId) fires.
RecvMessageDeleted(deleterId, messageId) ==
    LET events == <<Event(ON_MESSAGE_DELETE, <<deleterId, messageId>>)>>
    IN  /\ evpc = "recv"
        /\ nframes' = nframes + 1
        /\ waiting_for_fetches' = FireAll(waiting_for, waiting_for_fetches, events)
        /\ last' = Did("message_deleted", <<deleterId, messageId>>, "none", events,
                       TasksOf(listeners, events), <<>>, "none")
        /\ evpc' = AfterFrame("none")
        /\ sentops' = sentops \cup SentOps(last'.sent)
        /\ UNCHANGED <<lifeVars, sessionVars, fetchVars, waiting_for, waiters,
                       cmdVars, listeners, now, replied, converting>>

\* ------------------------------------------------------------ the room roster

\* The ids of the members of a room's roster.
Ids(r) == {r.users[i].id : i \in 1..Len(r.users)}

\* The exception a roster frame raises when no room is set: an attribute of
\* None is read.
NoRoomRaised == IF room = NoRoom THEN "AttributeError" ELSE "none"

\* The events a frame that raised did not reach are not fired.
FiredUnless(raised, events) == IF raised = "none" THEN events ELSE <<>>

\* "join_room_done": the room is replaced by the one of the frame, the
\* session's user is appended to its roster, a roster refresh is requested
\* and on_room_join fires.
RecvJoinRoomDone(d) ==
    LET joined == RoomFromDict(d)
        events == <<Event(ON_ROOM_JOIN, <<FALSE>>)>>
    IN  /\ evpc = "recv"
        /\ nframes' = nframes + 1
        /\ room' = [joined EXCEPT !.users = Append(@, user)]
        /\ waiting_for_fetches' = FireAll(waiting_for, waiting_for_fetches, events)
        /\ last' = Did("join_room_done", d, "none", events, TasksOf(listeners, events),
                       <<[op |-> "get_current_room_users", fetchId |-> None]>>, "none")
        /\ evpc' = AfterFrame("none")
        /\ sentops' = sentops \cup SentOps(last'.sent)
        /\ UNCHANGED <<lifeVars, user, rooms, fetchVars, waiting_for, waiters,
                       cmdVars, listeners, now, replied, converting>>

\* "you-joined-as-speaker": on_room_join(True) fires and nothing else is done.
RecvYouJoinedAsSpeaker ==
    LET events == <<Event(ON_ROOM_JOIN, <<TRUE>>)>>
    IN  /\ evpc = "recv"
        /\ nframes' = nframes + 1
        /\ waiting_for_fetches' = FireAll(waiting_for, waiting_for_fetches, events)
        /\ last' = Did("you-joined-as-speaker", <<>>, "none", events,
                       TasksOf(listeners, events), <<>>, "none")
        /\ evpc' = AfterFrame("none")
        /\ sentops' = sentops \cup SentOps(last'.sent)
        /\ UNCHANGED <<lifeVars, sessionVars, fetchVars, waiting_for, waiters,
                       cmdVars, listeners, now, replied, converting>>

\* "new_user_join_room": the user of the frame is appended to the roster and
\* on_user_join fires.
RecvNewUserJoinRoom(d) ==
    LET joined == UserFromDict(d)
        events == FiredUnless(NoRoomRaised, <<Event(ON_USER_JOIN, <<joined>>)>>)
    IN  /\ evpc = "recv"
        /\ nframes' = nframes + 1
        /\ room' = IF room = NoRoom THEN room
                   ELSE [room EXCEPT !.users = Append(@, joined)]
        /\ waiting_for_fetches' = FireAll(waiting_for, waiting_for_fetches, events)
        /\ last' = Did("new_user_join_room", d, NoRoomRaised, events,
                       TasksOf(listeners, events), <<>>, "none")
        /\ evpc' = AfterFrame(NoRoomRaised)
        /\ sentops' = sentops \cup SentOps(last'.sent)
        /\ UNCHANGED <<lifeVars, user, rooms, fetchVars, waiting_for, waiters,
                       cmdVars, listeners, now, replied, converting>>

\* The position of the first roster member with the id, 0 when none has it.
FirstWithId(users, id) ==
    IF \E i \in 1..Len(users) : users[i].id = id
    THEN CHOOSE i \in 1..Len(users) :
             users[i].id = id /\ \A j \in 1..(i - 1) : users[j].id # id
    ELSE 0

\* list without the element at position i.
RemoveAt(users, i) == SubSeq(users, 1, i - 1) \o SubSeq(users, i + 1, Len(users))

\* "user_left_room": the first roster member with the id is removed and
\* on_user_leave fires; [...][0] raises IndexError when nobody has the id.
RecvUserLeftRoom(userId) ==
    LET at == IF room = NoRoom THEN 0 ELSE FirstWithId(room.users, userId)
        raised == IF room = NoRoom THEN "AttributeError"
                  ELSE IF at = 0 THEN "IndexError" ELSE "none"
        events == IF raised = "none"
                  THEN <<Event(ON_USER_LEAVE, <<room.users[at]>>)>>
                  ELSE <<>>
    IN  /\ evpc = "recv"
        /\ nframes' = nframes + 1
        /\ room' = IF raised = "none"
                   THEN [room EXCEPT !.users = RemoveAt(@, at)]
                   ELSE room
        /\ waiting_for_fetches' = FireAll(waiting_for, waiting_for_fetches, events)
        /\ last' = Did("user_left_room", userId, raised, events,
                       TasksOf(listeners, events), <<>>, "none")
        /\ evpc' = AfterFrame(raised)
        /\ sentops' = sentops \cup SentOps(last'.sent)
        /\ UNCHANGED <<lifeVars, user, rooms, fetchVars, waiting_for, waiters,
                       cmdVars, listeners, now, replied, converting>>

\* The roster of a get_current_room_users_done frame: every user parsed, the
\* room's creator flagged as admin.
RefreshedUsers(ds, creator_id) ==
    [i \in 1..Len(ds) |->
        IF UserFromDict(ds[i]).id = creator_id
        THEN [UserFromDict(ds[i]) EXCEPT !.is_admin = TRUE]
        ELSE UserFromDict(ds[i])]

\* "get_current_room_users_done": the roster is replaced wholesale and
\* on_room_users_fetch fires.
RecvRoomUsersDone(ds) ==
    LET events == FiredUnless(NoRoomRaised, <<Event(ON_ROOM_USERS_FETCH, <<>>)>>)
    IN  /\ evpc = "recv"
        /\ nframes' = nframes + 1
        /\ room' = IF room = NoRoom THEN room
                   ELSE [room EXCEPT !.users = RefreshedUsers(ds, room.creator_id)]
        /\ waiting_for_fetches' = FireAll(waiting_for, waiting_for_fetches, events)
        /\ last' = Did("get_current_room_users_done", ds, NoRoomRaised, events,
                       TasksOf(listeners, events), <<>>, "none")
        /\ evpc' = AfterFrame(NoRoomRaised)
        /\ sentops' = sentops \cup SentOps(last'.sent)
        /\ UNCHANGED <<lifeVars, user, rooms, fetchVars, waiting_for, waiters,
                       cmdVars, listeners, now, replied, converting>>

ADMIN == <<"a", "d", "m", "i", "n">>
MOD == <<"m", "o", "d">>

\* A new_room_creator branch that demotes nobody.
ClearNoAdmins(users) == users

\* The first loop of the new_room_creator branch: every roster member that
\* holds the admin flag loses it.
ClearAdmins(users) ==
    [i \in 1..Len(users) |->
        IF users[i].is_admin THEN [users[i] EXCEPT !.is_admin = FALSE] ELSE users[i]]

\* A demotion that fires nothing.
NoDemotionEvents(users) == <<>>

\* The events of that loop, in roster order: on_permission_change for each
\* member that held the flag, with the flag already cleared.
RECURSIVE DemotionEvents(_)
DemotionEvents(users) ==
    IF users = <<>> THEN <<>>
    ELSE (IF Head(users).is_admin
          THEN <<Event(ON_PERMISSION_CHANGE,
                       <<[Head(users) EXCEPT !.is_admin = FALSE], ADMIN>>)>>
          ELSE <<>>)
         \o DemotionEvents(Tail(users))

\* The position of the first roster member with the id that is in the room
\* of the frame, 0 when there is none.
FirstInRoom(users, userId, roomId) ==
    IF \E i \in 1..Len(users) : users[i].id = userId /\ users[i].current_room_id = roomId
    THEN CHOOSE i \in 1..Len(users) :
             /\ users[i].id = userId /\ users[i].current_room_id = roomId
             /\ \A j \in 1..(i - 1) :
                    ~(users[j].id = userId /\ users[j].current_room_id = roomId)
    ELSE 0

\* setattr(user.room_permissions, attribute, not getattr(...))
Toggled(usr, type) ==
    IF type = ADMIN THEN [usr EXCEPT !.is_admin = ~@] ELSE [usr EXCEPT !.is_mod = ~@]

\* The position of the first roster member that is no User, 0 when all
\* are: a UserPreview (and None) has no room_permissions, so reading the
\* flag of that member raises AttributeError.
FirstWithoutPermissions(users) ==
    IF \E i \in 1..Len(users) : users[i].kind # "User"
    THEN CHOOSE i \in 1..Len(users) :
             users[i].kind # "User" /\ \A j \in 1..(i - 1) : users[j].kind = "User"
    ELSE 0

\* "user.id == userId and user.current_room_id == roomId" raises
\* AttributeError on None, and on a UserPreview that has the id, which has no
\* current_room_id.
MatchRaises(usr, userId) ==
    usr.kind = "None" \/ (usr.kind = "UserPreview" /\ usr.id = userId)

\* The position of the first roster member on which that test raises, 0
\* when it raises on none.
FirstMatchRaises(users, userId) ==
    IF \E i \in 1..Len(users) : MatchRaises(users[i], userId)
    THEN CHOOSE i \in 1..Len(users) :
             MatchRaises(users[i], userId)
                 /\ \A j \in 1..(i - 1) : ~MatchRaises(users[j], userId)
    ELSE 0

\* "mod_changed" and "new_room_creator": for the latter the admins are
\* demoted first, up to the first member that has no permissions, where the
\* loop raises; then the flag of the first member the frame names is toggled
\* and on_permissions_change fires for it, unless the test raises on a
\* member before it.
RecvPermissionChanged(op, userId, roomId) ==
    LET type == IF op = "mod_changed" THEN MOD ELSE ADMIN
        before == IF room = NoRoom THEN <<>> ELSE room.users
        stop == IF type = ADMIN THEN FirstWithoutPermissions(before) ELSE 0
        reached == IF stop = 0 THEN before ELSE SubSeq(before, 1, stop - 1)
        cleared == IF type = ADMIN
                   THEN ClearAdmins(reached) \o SubSeq(before, Len(reached) + 1, Len(before))
                   ELSE before
        demotions == IF type = ADMIN THEN DemotionEvents(reached) ELSE <<>>
        bad == FirstMatchRaises(cleared, userId)
        found == FirstInRoom(cleared, userId, roomId)
        at == IF stop # 0 \/ (bad # 0 /\ (found = 0 \/ bad < found)) THEN 0 ELSE found
        after == IF at = 0 THEN cleared
                 ELSE [cleared EXCEPT ![at] = Toggled(@, type)]
        promotion == IF at = 0 THEN <<>>
                     ELSE <<Event(ON_PERMISSIONS_CHANGE, <<after[at], type>>)>>
        raised == IF room = NoRoom \/ stop # 0
                     \/ (bad # 0 /\ (found = 0 \/ bad < found))
                  THEN "AttributeError" ELSE "none"
        events == IF room = NoRoom THEN <<>> ELSE demotions \o promotion
    IN  /\ evpc = "recv"
        /\ nframes' = nframes + 1
        /\ room' = IF room = NoRoom THEN room ELSE [room EXCEPT !.users = after]
        /\ waiting_for_fetches' = FireAll(waiting_for, waiting_for_fetches, events)
        /\ last' = Did(op, <<userId, roomId>>, raised, events,
                       TasksOf(listeners, events), <<>>, "none")
        /\ evpc' = AfterFrame(raised)
        /\ sentops' = sentops \cup SentOps(last'.sent)
        /\ UNCHANGED <<lifeVars, user, rooms, fetchVars, waiting_for, waiters,
                       cmdVars, listeners, now, replied, converting>>

\* ----------------------------------------------------------------- wait_for

\* The check callables tried: no check, and
\* lambda *a: len(a) > 0 and a[0] != "u1".
Check(check, dt) == IF check = "not_u1" THEN Len(dt) > 0 /\ dt[1] # U1 ELSE TRUE

NoResult == [shape |-> "none", val |-> <<>>]

\* wait_for(event_name, timeout=, check=, tick=, fetch_arguments=) up to its
\* first suspension: a fresh waiter id is registered under event_name; with
\* fetch_arguments the call suspends in __fetch (which raises without a
\* socket), otherwise in the first sleep of its loop.
WaitFor(event_name, timeout, tick, check, fetch_op) ==
    LET fetch_id == uuid + 1
        pc == IF fetch_op = "None" THEN "sleeping"
              ELSE IF socket = "open" THEN "fetching" ELSE "raised"
    IN  /\ waiting_for' =
               Put(waiting_for, event_name,
                   IF event_name \in DOMAIN waiting_for
                   THEN Append(waiting_for[event_name], fetch_id)
                   ELSE <<fetch_id>>)
        /\ waiters' =
               Put(waiters, fetch_id,
                   [event_name |-> event_name, timeout |-> timeout, tick |-> tick,
                    check |-> check, passed |-> 0, pc |-> pc,
                    raised |-> IF pc = "raised" THEN "AttributeError" ELSE "none",
                    result |-> NoResult, polled |-> <<>>, got |-> <<>>])
        /\ IF fetch_op = "None"
           THEN /\ uuid' = fetch_id
                /\ UNCHANGED <<fetches, sending, issued>>
           ELSE FetchSend(fetch_op, fetch_id, fetch_id + 1)
        /\ last' = Did("wait_for", fetch_id,
                       IF pc = "raised" THEN "AttributeError" ELSE "none", <<>>, <<>>,
                       IF fetch_op = "None" THEN <<>>
                       ELSE FetchSent(fetch_op, fetch_id + 1), "none")
        /\ sentops' = sentops \cup SentOps(last'.sent)
        /\ UNCHANGED <<lifeVars, sessionVars, waiting_for_fetches, cmdVars,
                       listeners, now, evpc, replied, nframes, converting>>

\* "for dt in data" of wait_for, with data.remove(dt) inside the loop: the
\* iterator is at index i (from 0) of the list as it is now.
RECURSIVE Scan(_, _, _)
Scan(data, i, check) ==
    IF i >= Len(data)
    THEN [check_passed |-> FALSE, dt |-> <<>>, buffer |-> data]
    ELSE IF Check(check, data[i + 1])
    THEN [check_passed |-> TRUE, dt |-> data[i + 1], buffer |-> data]
    ELSE Scan(ListRemove(data, data[i + 1]), i + 1, check)

\* What one poll finds in the buffer: without a check the first tuple.
Poll(data, check) ==
    IF check # "None" THEN Scan(data, 0, check)
    ELSE [check_passed |-> TRUE, dt |-> data[1], buffer |-> data]

\* "return (*data[0],) if len(data[0]) > 1 else data[0][0]"
ReturnValue(dt) ==
    IF Len(dt) > 1 THEN [raised |-> "none", result |-> [shape |-> "tuple", val |-> dt]]
    ELSE IF Len(dt) = 1
    THEN [raised |-> "none", result |-> [shape |-> "single", val |-> <<dt[1]>>]]
    ELSE [raised |-> "IndexError", result |-> NoResult]

\* A timeout that leaves the waiter id registered.
AfterTimeoutKept(wf, event_name, fetch_id) == wf

\* self.__waiting_for after a wait_for call has timed out.
AfterTimeout(wf, event_name, fetch_id) ==
    [wf EXCEPT ![event_name] = ListRemove(@, fetch_id)]

\* One iteration of the polling loop of the wait_for call fetch_id, from the
\* end of its sleep to the next sleep, the return or the raise.
WaitPoll(fetch_id) ==
    LET w == waiters[fetch_id]
        passed == w.passed + w.tick
    IN  /\ fetch_id \in DOMAIN waiters
        /\ w.pc = "sleeping"
        /\ IF passed > w.timeout
           THEN /\ waiting_for' = AfterTimeout(waiting_for, w.event_name, fetch_id)
                /\ waiters' = [waiters EXCEPT ![fetch_id].passed = passed,
                                              ![fetch_id].pc = "raised",
                                              ![fetch_id].raised = "TimeoutError"]
                /\ last' = Did("wait_poll", fetch_id, "TimeoutError", <<>>, <<>>, <<>>, "none")
                /\ UNCHANGED waiting_for_fetches
           ELSE IF fetch_id \in DOMAIN waiting_for_fetches
           THEN LET found == Poll(waiting_for_fetches[fetch_id], w.check)
                    ret == ReturnValue(found.dt)
                IN  /\ waiting_for_fetches' =
                           [waiting_for_fetches EXCEPT ![fetch_id] = found.buffer]
                    /\ waiters' =
                           IF ~found.check_passed
                           THEN [waiters EXCEPT ![fetch_id].passed = passed]
                           ELSE [waiters EXCEPT
                                    ![fetch_id].passed = passed,
                                    ![fetch_id].pc =
                                        IF ret.raised = "none" THEN "returned" ELSE "raised",
                                    ![fetch_id].raised = ret.raised,
                                    ![fetch_id].result = ret.result,
                                    ![fetch_id].polled = waiting_for_fetches[fetch_id],
                                    ![fetch_id].got = <<found.dt>>]
                    /\ last' = Did("wait_poll", fetch_id,
                                   IF found.check_passed THEN ret.raised ELSE "none",
                                   <<>>, <<>>, <<>>, "none")
                    /\ UNCHANGED waiting_for
           ELSE /\ waiters' = [waiters EXCEPT ![fetch_id].passed = passed]
                /\ last' = Did("wait_poll", fetch_id, "none", <<>>, <<>>, <<>>, "none")
                /\ UNCHANGED <<waiting_for, waiting_for_fetches>>
        /\ sentops' = sentops \cup SentOps(last'.sent)
        /\ UNCHANGED <<lifeVars, sessionVars, fetchVars, cmdVars, listeners,
                       now, evpc, replied, nframes, converting>>

\* ------------------------------------------------------------- chat tokens

\* The grave accent character that encloses a code block.
Backtick == "backtick"

\* A parse_token_to_message that restores no marker.
ParseTokenUnformatted(token) == token.v

\* parse_token_to_message with message_formats
ParseTokenToMessage(token) ==
    IF token.t = "mention" THEN <<"@">> \o token.v
    ELSE IF token.t = "emote" THEN <<":">> \o token.v \o <<":">>
    ELSE IF token.t = "block" THEN <<Backtick>> \o token.v \o <<Backtick>>
    ELSE token.v

\* parse_tokens_to_message
ParseTokensToMessage(tokens) ==
    Join([i \in 1..Len(tokens) |-> ParseTokenToMessage(tokens[i])], <<" ">>)

EndsWith(s, c) == s # <<>> /\ s[Len(s)] = c

\* parse_word_to_token: a word of three characters or more that starts with
\* "@" is a mention, one of eight or more that starts with "http" a link,
\* one of three or more enclosed in ":" an emote, in grave accents a block.
ParseWordToToken(word) ==
    IF StartsWith(word, <<"@">>) /\ Len(word) >= 3
    THEN [t |-> "mention", v |-> From(word, 1)]
    ELSE IF StartsWith(word, <<"h", "t", "t", "p">>) /\ Len(word) >= 8
    THEN [t |-> "link", v |-> word]
    ELSE IF StartsWith(word, <<":">>) /\ EndsWith(word, ":") /\ Len(word) >= 3
    THEN [t |-> "emote", v |-> SubSeq(word, 2, Len(word) - 1)]
    ELSE IF StartsWith(word, <<Backtick>>) /\ EndsWith(word, Backtick) /\ Len(word) >= 3
    THEN [t |-> "block", v |-> SubSeq(word, 2, Len(word) - 1)]
    ELSE [t |-> "text", v |-> word]

\* parse_sentence_to_tokens
ParseSentenceToTokens(sentence) ==
    LET words == Split(sentence)
    IN  [i \in 1..Len(words) |-> ParseWordToToken(words[i])]

\* ----------------------------------------------------------------- get_user

\* "hasattr(_user, attribute)" with a value that has lower(), equal to the
\* argument when lowered.  A UserPreview has no username.
AttributeMatches(usr, attribute, argument) ==
    LET attrs == IF attribute = "id" THEN usr.id
                 ELSE IF attribute = "username" THEN usr.username
                 ELSE usr.displayname
    IN  IF attrs = None THEN FALSE ELSE Lower(attrs) = argument

\* check(attribute): the position of the first roster member whose attribute
\* matches, 0 when there is none.
RECURSIVE CheckFrom(_, _, _, _)
CheckFrom(users, attribute, argument, i) ==
    IF i > Len(users) THEN 0
    ELSE IF AttributeMatches(users[i], attribute, argument) THEN i
    ELSE CheckFrom(users, attribute, argument, i + 1)

\* A get_user that returns the first member that matches in any attribute.
RECURSIVE ResolveMemberFirst(_, _)
ResolveMemberFirst(users, argument) ==
    IF users = <<>> THEN 0
    ELSE IF \E attr \in {"id", "username", "displayname"} :
                AttributeMatches(users[Len(users)], attr, argument)
            /\ ResolveMemberFirst(SubSeq(users, 1, Len(users) - 1), argument) = 0
    THEN Len(users)
    ELSE ResolveMemberFirst(SubSeq(users, 1, Len(users) - 1), argument)

\* "for attr in ["id", "username", "displayname"]: user = check(attr)": the
\* position of the member get_user returns, 0 when it raises.
Resolve(users, argument) ==
    LET byId == CheckFrom(users, "id", argument, 1)
        byUsername == CheckFrom(users, "username", argument, 1)
        byDisplayname == CheckFrom(users, "displayname", argument, 1)
    IN  IF byId # 0 THEN byId
        ELSE IF byUsername # 0 THEN byUsername
        ELSE byDisplayname

\* get_user(argument): a mention loses its "@", the argument is lowered and
\* resolved in self.room.users; AttributeError while self.room is None.
GetUser(r, argument) ==
    IF r = NoRoom THEN [raised |-> "AttributeError", user |-> NoUser]
    ELSE LET parsed == ParseWordToToken(argument)
             lowered == Lower(IF parsed.t = "mention" THEN From(argument, 1) ELSE argument)
             at == Resolve(r.users, lowered)
         IN  IF at = 0 THEN [raised |-> "MemberNotFound", user |-> NoUser]
             ELSE [raised |-> "none", user |-> r.users[at]]

\* A call of get_user by the program that uses the client.
GetUserCall(argument) ==
    LET got == GetUser(room, argument)
    IN  /\ last' = Did("get_user", argument, got.raised, <<>>, <<>>, <<>>, got.user)
        /\ sentops' = sentops \cup SentOps(last'.sent)
        /\ UNCHANGED <<lifeVars, sessionVars, fetchVars, waitVars, cmdVars,
                       listeners, now, evpc, replied, nframes, converting>>

\* ------------------------------------------------------------ Convertor

\* Python values that reach the convertor: their type and their text.
Str(s) == [ty |-> "str", v |-> s]
NoneValue == [ty |-> "NoneType", v |-> None]

\* The annotations that are classes; Parameter.empty is one.
TypeObjects == {"str", "int", "float", "bool", "empty", "User"}

\* Convertor.basic_types
BasicTypes == {"str", "int", "float", "bool"}

\* isinstance(value, out): bool is a subclass of int.
IsInstance(value, out) == value.ty = out \/ (value.ty = "bool" /\ out = "int")

\* isinstance(out, Convertor.basic_types) for a class out: a class is an
\* instance of type, never of str, int, float or bool.
ClassIsBasicInstance(out) == FALSE

IsDigits(s) == s # <<>> /\ \A i \in 1..Len(s) : s[i] \in {"0", "1", "2", "3", "4", "5", "6", "7", "8", "9"}

\* "out(round(float(value)) if issubclass(out, int) else value)" on a str.
Construct(value, out) ==
    IF out \in {"int", "bool", "float"} /\ ~IsDigits(value.v)
    THEN [raised |-> "ValueError", value |-> value]
    ELSE [raised |-> "none", value |-> [ty |-> out, v |-> value.v]]

\* Convertor.convert_basic_types(value, out)
ConvertBasicTypes(value, out) ==
    IF out \notin TypeObjects THEN [raised |-> "TypeError", value |-> value]
    ELSE IF IsInstance(value, out) THEN [raised |-> "none", value |-> value]
    ELSE IF ~ClassIsBasicInstance(out) THEN [raised |-> "TypeError", value |-> value]
    ELSE IF value.ty \notin BasicTypes THEN [raised |-> "TypeError", value |-> value]
    ELSE Construct(value, out)

\* Convertor.handle_basic_types(param, argument): the argument itself when it
\* equals the default or when convert_basic_types raises TypeError.
HandleBasicTypes(param, argument) ==
    IF param.has_default /\ argument = param.default
    THEN [raised |-> "none", value |-> argument]
    ELSE LET c == ConvertBasicTypes(argument, param.annotation)
         IN  IF c.raised = "TypeError" THEN [raised |-> "none", value |-> argument] ELSE c

\* client.py holds two definitions of fetch_user between the markers of an
\* unresolved merge, the one of HEAD and the one of commit 134de95; a build
\* of the client has one of them.
FetchUserSides == {"HEAD", "134de95"}

\* fetch_user(argument).  HEAD: get_user's result or exception.  134de95:
\* when get_user raises MemberNotFound a get_user_profile fetch is issued for
\* the argument and None is returned.
FetchUser(side, argument) ==
    LET got == GetUser(room, argument)
    IN  IF got.raised = "MemberNotFound" /\ side # "HEAD"
        THEN [raised |-> "none", value |-> NoneValue, fetched |-> <<argument>>]
        ELSE [raised |-> got.raised, value |-> [ty |-> "User", v |-> got.user],
              fetched |-> <<>>]

\* User.convert, that is Convertor._get_user("User", ctx.client, param,
\* argument): the argument itself when it equals the default, otherwise the
\* result of fetch_user, whose MemberNotFound is raised again as
\* MemberNotFound.
ConvertUser(side, param, argument) ==
    IF param.has_default /\ argument = param.default
    THEN [raised |-> "none", value |-> argument, fetched |-> <<>>]
    ELSE FetchUser(side, argument.v)

\* "value and param.annotation and hasattr(param.annotation, "convert")":
\* of the annotations used here only User has a convert method.
Converts(param, value) == value # <<>> /\ param.annotation = "User"

\* --------------------------------------------------------------- handlers

\* inspect.Parameter: its name, default (has_default is false for
\* Parameter.empty), kind and annotation.
Param(key, has_default, default, kind, annotation) ==
    [key |-> key, has_default |-> has_default, default |-> default,
     kind |-> kind, annotation |-> annotation]

Plain(key) == Param(key, FALSE, NoneValue, "POSITIONAL_OR_KEYWORD", "empty")

FOO == <<"f", "o", "o">>
HELP == <<"h", "e", "l", "p">>
HELLO == <<"h", "e", "l", "l", "o">>
HI == <<"h", "i">>
YO == <<"y", "o">>

\* async def foo(self)                     (examples/sample_help.py)
HandlerFoo == [fn |-> FOO, params |-> <<Plain("self")>>]

\* async def help(self, _, cmd: str = None) (examples/sample_help.py)
HandlerHelp ==
    [fn |-> HELP,
     params |-> <<Plain("self"), Plain("_"),
                  Param("cmd", TRUE, NoneValue, "POSITIONAL_OR_KEYWORD", "str")>>]

\* async def hello(self, ctx, *, message: str)            (test.py)
HandlerHello ==
    [fn |-> HELLO,
     params |-> <<Plain("self"), Plain("ctx"),
                  Param("message", FALSE, NoneValue, "KEYWORD_ONLY", "str")>>]

PEPE == <<"p", "e", "p", "e">>
GREET == <<"g", "r", "e", "e", "t">>

\* async def pepe(self, ctx: Context, user: User = None, *, reason: str = None)
\*                                                    (examples/telemetry.py)
HandlerPepe ==
    [fn |-> PEPE,
     params |-> <<Plain("self"), Plain("ctx"),
                  Param("user", TRUE, NoneValue, "POSITIONAL_OR_KEYWORD", "User"),
                  Param("reason", TRUE, NoneValue, "KEYWORD_ONLY", "str")>>]

\* async def greet(self, ctx, user: User)
HandlerGreet ==
    [fn |-> GREET,
     params |-> <<Plain("self"), Plain("ctx"),
                  Param("user", FALSE, NoneValue, "POSITIONAL_OR_KEYWORD", "User")>>]

ECHO == <<"e", "c", "h", "o">>
ADD == <<"a", "d", "d">>

\* async def echo(self, ctx, *words)
HandlerEcho ==
    [fn |-> ECHO,
     params |-> <<Plain("self"), Plain("ctx"),
                  Param("words", FALSE, NoneValue, "VAR_POSITIONAL", "empty")>>]

\* async def add(self, ctx, a: int, b: int)
HandlerAdd ==
    [fn |-> ADD,
     params |-> <<Plain("self"), Plain("ctx"),
                  Param("a", FALSE, NoneValue, "POSITIONAL_OR_KEYWORD", "int"),
                  Param("b", FALSE, NoneValue, "POSITIONAL_OR_KEYWORD", "int")>>]

\* async def hello(ctx), registered with @client.command()
HandlerBound == [fn |-> HELLO, params |-> <<Plain("ctx")>>]

\* ------------------------------------------------------------ registration

\* A save that replaces the entry of a name that is taken.
RECURSIVE SaveAllReplacing(_, _, _)
SaveAllReplacing(table, names, entry) ==
    IF names = <<>> THEN [raised |-> "none", table |-> table]
    ELSE SaveAllReplacing(Put(table, Head(names), entry), Tail(names), entry)

\* save(_name) of command.wrapper over the names in turn: the first name
\* that is taken raises, the names before it stay saved.
RECURSIVE SaveAll(_, _, _)
SaveAll(table, names, entry) ==
    IF names = <<>> THEN [raised |-> "none", table |-> table]
    ELSE IF Head(names) \in DOMAIN table
    THEN [raised |-> "CommandAlreadyDefined", table |-> table]
    ELSE SaveAll(Put(table, Head(names), entry), Tail(names), entry)

\* The names command.wrapper saves: the name (the function's when none is
\* given) and the aliases, each through convert_basic_types(_, str).lower().
CommandNames(func, name, aliases) ==
    LET given == <<IF name # None THEN name ELSE func.fn>> \o aliases
    IN  [i \in 1..Len(given) |-> Lower(ConvertBasicTypes(Str(given[i]), "str").value.v)]

\* @dogehouse.event(name=) applied to a method: the listener is saved under
\* the lowercased name, unbound.
DeclareEvent(name) ==
    /\ listeners' = Put(listeners, Lower(ConvertBasicTypes(Str(name), "str").value.v), FALSE)
    /\ last' = Did("event", name, "none", <<>>, <<>>, <<>>, "none")
    /\ sentops' = sentops \cup SentOps(last'.sent)
    /\ UNCHANGED <<lifeVars, sessionVars, fetchVars, waitVars, cmdVars, now, evpc,
                   replied, nframes, converting>>

\* @dogehouse.command(name=, cooldown=, aliases=) applied to func.
DeclareCommand(func, name, cooldown, aliases) ==
    LET names == CommandNames(func, name, aliases)
        saved == SaveAll(commands, names, <<func, FALSE, cooldown>>)
    IN  /\ commands' = saved.table
        /\ nregs' = nregs + 1
        /\ last' = Did("command", names, saved.raised, <<>>, <<>>, <<>>, "none")
        /\ sentops' = sentops \cup SentOps(last'.sent)
        /\ UNCHANGED <<lifeVars, sessionVars, fetchVars, waitVars,
                       command_cooldown_cache, cmdlog, listeners, now, evpc,
                       replied, nframes, converting>>

\* self.__commands after the decorator of DogeClient.command(name) has been
\* applied to func.
InstanceSave(table, func, name) ==
    Put(table, Lower(IF name # None THEN name ELSE func.fn), <<func, TRUE>>)

\* @client.command(name) applied to func.
InstanceCommand(func, name) ==
    /\ commands' = InstanceSave(commands, func, name)
    /\ nregs' = nregs + 1
    /\ last' = Did("client.command", <<Lower(IF name # None THEN name ELSE func.fn)>>,
                   "none", <<>>, <<>>, <<>>, "none")
    /\ sentops' = sentops \cup SentOps(last'.sent)
    /\ UNCHANGED <<lifeVars, sessionVars, fetchVars, waitVars,
                   command_cooldown_cache, cmdlog, listeners, now, evpc,
                   replied, nframes, converting>>

\* ---------------------------------------------------------- execute_command

\* The loop of execute_command over the handler's remaining parameters, at
\* index idx: a missing argument of a parameter with a default binds the
\* default; otherwise args[idx] is taken (IndexError when there is none), a
\* keyword-only parameter joins the remaining arguments, and the stripped
\* value goes through the annotation's convert method when it has one and
\* through handle_basic_types otherwise.  fetched lists the arguments for
\* which a conversion issued a get_user_profile fetch.
\* A binding loop that never falls back on a default.
TakesDefaultNever(param, idx, nargs) == FALSE

\* "idx + 1 > len(args) and param.default != Parameter.empty"
TakesDefault(param, idx, nargs) == idx + 1 > nargs /\ param.has_default

RECURSIVE BindParameters(_, _, _, _, _, _)
BindParameters(parameters, args, idx, params, fetched, side) ==
    IF idx >= Len(parameters)
    THEN [raised |-> "none", params |-> params, fetched |-> fetched]
    ELSE LET param == parameters[idx + 1]
         IN  IF TakesDefault(param, idx, Len(args))
             THEN BindParameters(parameters, args, idx + 1,
                                 Append(params, [key |-> param.key, value |-> param.default]),
                                 fetched, side)
             ELSE IF idx >= Len(args)
             THEN [raised |-> "IndexError", params |-> params, fetched |-> fetched]
             ELSE LET raw == IF param.kind = "KEYWORD_ONLY" /\ Len(args) - idx - 1 # 0
                             THEN Join(From(args, idx), <<" ">>)
                             ELSE args[idx + 1]
                      value == Strip(raw)
                      basic == HandleBasicTypes(param, Str(value))
                      bound == IF Converts(param, value)
                               THEN ConvertUser(side, param, Str(value))
                               ELSE [raised |-> basic.raised, value |-> basic.value,
                                     fetched |-> <<>>]
                  IN  IF bound.raised # "none"
                      THEN [raised |-> bound.raised, params |-> params,
                            fetched |-> fetched \o bound.fetched]
                      ELSE BindParameters(parameters, args, idx + 1,
                                          Append(params, [key |-> param.key,
                                                          value |-> bound.value]),
                                          fetched \o bound.fetched, side)

\* f"{command_name}-{ctx.author.id}"
InstanceId(command_name, author_id) == command_name \o <<"-">> \o author_id

\* "_command[2] and instance_id in cache and invoked_at - cache[instance_id]
\* < _command[2]": the invocation is inside the cooldown window.
Throttled(cache, entry, instance_id, invoked_at) ==
    /\ entry[3] # 0
    /\ instance_id \in DOMAIN cache
    /\ invoked_at - cache[instance_id] < entry[3]

\* The cooldown cache after the arguments of an invocation have been bound:
\* the timestamp is written inside "if parameters:", so not for a handler
\* that has no parameter left after the session parameter.
CacheAfterBinding(cache, parameters, instance_id, invoked_at) ==
    IF parameters # <<>> THEN Put(cache, instance_id, invoked_at) ELSE cache

\* handler(*arguments, **params) raises TypeError when a name in params is
\* the handler's *args parameter.
CallRaises(parameters) ==
    \E i \in 1..Len(parameters) : parameters[i].kind = "VAR_POSITIONAL"

Outcome(kind, raised, fired, scheduled, cache, fetched) ==
    [kind |-> kind, raised |-> raised, fired |-> fired, scheduled |-> scheduled,
     cache |-> cache, fetched |-> fetched]

\* The cooldown a command name is registered with, 0 when it has none.
Cooldown(table, command_name) ==
    IF Lower(command_name) \in DOMAIN table /\ Len(table[Lower(command_name)]) >= 3
    THEN table[Lower(command_name)][3]
    ELSE 0

\* execute_command(command_name, ctx, *args) at time invoked_at: what it
\* raises, the events it fires, the handler task it schedules and the
\* cooldown cache it leaves.
ExecuteCommand(table, cache, command_name, author, args, invoked_at, side) ==
    IF Lower(command_name) \notin DOMAIN table
    THEN Outcome("NotFound", "CommandNotFound", <<>>, <<>>, cache, <<>>)
    ELSE
    LET entry == table[Lower(command_name)]
        instance_id == InstanceId(command_name, author.id)
        func == entry[1]
        \* "if not _command[1]: arguments.append(self); parameters.pop(0)"
        afterSelf == IF entry[2] THEN func.params ELSE Tail(func.params)
        \* "if parameters: arguments.append(ctx); parameters.pop(0)"
        parameters == IF afterSelf # <<>> THEN Tail(afterSelf) ELSE <<>>
        arguments == (IF entry[2] THEN <<>> ELSE <<"self">>)
                     \o (IF afterSelf # <<>> THEN <<"ctx">> ELSE <<>>)
        bound == IF afterSelf # <<>> THEN BindParameters(parameters, args, 0, <<>>, <<>>, side)
                 ELSE [raised |-> "none", params |-> <<>>, fetched |-> <<>>]
    IN  IF Len(entry) < 3
        THEN Outcome("IndexError", "IndexError", <<>>, <<>>, cache, <<>>)
        ELSE IF Throttled(cache, entry, instance_id, invoked_at)
        THEN Outcome("Throttled", "none",
                     <<Event(ON_COOLDOWN_TRIGGER,
                             <<"ctx", command_name, func.fn,
                               entry[3] - (invoked_at - cache[instance_id])>>)>>,
                     <<>>, cache, <<>>)
        ELSE IF ~entry[2] /\ func.params = <<>>
        THEN Outcome("IndexError", "IndexError", <<>>, <<>>, cache, <<>>)
        ELSE IF bound.raised \in {"IndexError", "TypeError"}
        THEN Outcome("ArityError", "NotEnoughArguments", <<>>, <<>>, cache, bound.fetched)
        ELSE IF bound.raised # "none"
        THEN Outcome("Error", bound.raised, <<>>, <<>>, cache, bound.fetched)
        ELSE IF CallRaises(parameters)
        THEN Outcome("ArityError", "NotEnoughArguments", <<>>, <<>>,
                     CacheAfterBinding(cache, afterSelf, instance_id, invoked_at),
                     bound.fetched)
        ELSE Outcome("Scheduled", "none", <<>>,
                     <<[fn |-> func.fn, args |-> arguments, kwargs |-> bound.params]>>,
                     CacheAfterBinding(cache, afterSelf, instance_id, invoked_at),
                     bound.fetched)

\* ------------------------------------------------------------ chat messages

\* send(message): without a room NoConnectionException; otherwise a
\* send_room_chat_msg frame carries the tokens of the message.
Send(message) ==
    LET raised == IF room = NoRoom THEN "NoConnectionException"
                  ELSE IF socket # "open" THEN "AttributeError" ELSE "none"
        frame == [op |-> "send_room_chat_msg", fetchId |-> None,
                  d |-> [whisperedTo |-> <<>>, tokens |-> ParseSentenceToTokens(message)]]
    IN  /\ last' = Did("send", message, raised, <<>>, <<>>,
                       IF raised = "none" THEN <<frame>> ELSE <<>>, "none")
        /\ sentops' = sentops \cup SentOps(last'.sent)
        /\ UNCHANGED <<lifeVars, sessionVars, fetchVars, waitVars, cmdVars,
                       listeners, now, evpc, replied, nframes, converting>>

\* Message.from_dict with BaseUser.from_dict for the author.
MessageFromDict(d) ==
    [kind |-> "Message", tokens |-> d.tokens,
     author |-> [kind |-> "BaseUser", id |-> d.userId, username |-> d.username,
                 displayname |-> d.displayName],
     content |-> ParseTokensToMessage(d.tokens)]

\* self.prefix, the default "!", as the list of prefixes.
Prefixes == <<<<"!">>>>

\* The condition of handle_command(_prefix) on the message content.
PrefixMatches(content, prefix) ==
    StartsWith(content, prefix) /\ Len(content) > Len(prefix) + 1

\* The first configured prefix that handle_command accepts, as a list.
RECURSIVE FirstPrefix(_, _)
FirstPrefix(content, prefixes) ==
    IF prefixes = <<>> THEN <<>>
    ELSE IF PrefixMatches(content, Head(prefixes)) THEN <<Head(prefixes)>>
    ELSE FirstPrefix(content, Tail(prefixes))

\* A new_chat_msg branch that takes no message for the session's own.
OwnMessageNever(msg, usr) == FALSE

\* "if msg.author.id == self.user.id: continue"
OwnMessage(msg, usr) == msg.author.id = usr.id

\* A new_chat_msg branch without its try statement.
ChatRaisedUncaught(usr, routed, out_raised) ==
    IF usr = NoUser THEN "AttributeError"
    ELSE IF routed THEN out_raised ELSE "none"

\* The exception that leaves the new_chat_msg branch: self.user.id while
\* self.user is None; what execute_command raises is caught by the branch.
ChatRaised(usr, routed, out_raised) ==
    IF usr = NoUser THEN "AttributeError" ELSE "none"

\* The get_user_profile frame of a fetch_user call.
ProfileFrame(id, argument) ==
    [op |-> "get_user_profile", fetchId |-> id, d |-> [userId |-> argument]]

\* "new_chat_msg": on_message fires; a message of another user that starts
\* with a prefix is split and routed to execute_command; an exception of the
\* routing goes to the on_error listener when there is one.  The branch
\* awaits handle_command, which awaits execute_command, which awaits each
\* convert: when a conversion calls fetch_user the branch is suspended in the
\* send of the fetch, with the rest of the routing still to run.
RecvNewChatMsg(d) ==
    /\ evpc = "recv"
    /\ \E side \in FetchUserSides :
           LET msg == MessageFromDict(d)
               onMessage == <<Event(ON_MESSAGE, <<msg>>)>>
               own == OwnMessage(msg, user)
               prefix == FirstPrefix(msg.content, Prefixes)
               routed == user # NoUser /\ ~own /\ prefix # <<>>
               splitted == Split(From(msg.content, Len(prefix[1])))
               ran == IF routed
                      THEN ExecuteCommand(commands, command_cooldown_cache, splitted[1],
                                          msg.author, Tail(splitted), now, side)
                      ELSE Outcome("none", "none", <<>>, <<>>, command_cooldown_cache, <<>>)
           IN
           \E out \in {ran} :
           LET fetched == out.fetched
               onError == IF routed /\ out.raised # "none" /\ ON_ERROR \in DOMAIN listeners
                          THEN <<Event(ON_ERROR, <<out.raised>>)>>
                          ELSE <<>>
               events == onMessage \o (IF routed THEN out.fired ELSE <<>>) \o onError
               raised == ChatRaised(user, routed, out.raised)
               entry == [name |-> splitted[1], user |-> msg.author.id,
                         at |-> now, kind |-> out.kind,
                         args |-> Tail(splitted),
                         raised |-> out.raised,
                         cooldown |-> Cooldown(commands, splitted[1]),
                         fired |-> out.fired,
                         scheduled |-> out.scheduled]
           IN  /\ nframes' = nframes + 1
               /\ IF fetched = <<>>
                  THEN /\ command_cooldown_cache' =
                              IF routed THEN out.cache ELSE command_cooldown_cache
                       /\ cmdlog' = IF routed THEN Append(cmdlog, entry) ELSE cmdlog
                       /\ waiting_for_fetches' =
                              FireAll(waiting_for, waiting_for_fetches, events)
                       /\ last' = Did("new_chat_msg", d, raised, events,
                                      TasksOf(listeners, events)
                                          \o (IF routed THEN out.scheduled ELSE <<>>),
                                      <<>>, "none")
                       /\ evpc' = AfterFrame(raised)
                       /\ UNCHANGED <<uuid, issued, converting>>
                  ELSE /\ uuid' = uuid + 1
                       /\ issued' = Put(issued, uuid + 1, "get_user_profile")
                       /\ waiting_for_fetches' =
                              FireAll(waiting_for, waiting_for_fetches, onMessage)
                       /\ last' = Did("new_chat_msg", d, "none", onMessage,
                                      TasksOf(listeners, onMessage),
                                      <<ProfileFrame(uuid + 1, fetched[1])>>, "none")
                       /\ converting' = <<[d |-> d, entry |-> entry, out |-> out,
                                            id |-> uuid + 1, left |-> Tail(fetched)]>>
                       /\ evpc' = "converting"
                       /\ UNCHANGED <<command_cooldown_cache, cmdlog>>
               /\ sentops' = sentops \cup SentOps(last'.sent)
               /\ UNCHANGED <<lifeVars, sessionVars, fetches, sending, waiting_for,
                              waiters, commands, nregs, listeners, now, replied>>

\* The send of a conversion's fetch completes: __fetch records the id and
\* fetch_user returns; the binding goes on to the next conversion that
\* fetches, or the rest of the routing runs and the branch ends.
ConvertResume ==
    /\ evpc = "converting"
    /\ converting # <<>>
    /\ LET c == converting[1]
           out == c.out
           onError == IF out.raised # "none" /\ ON_ERROR \in DOMAIN listeners
                      THEN <<Event(ON_ERROR, <<out.raised>>)>>
                      ELSE <<>>
           events == out.fired \o onError
       IN  /\ fetches' = Put(fetches, c.id, "get_user_profile")
           /\ IF c.left # <<>>
              THEN /\ uuid' = uuid + 1
                   /\ issued' = Put(issued, uuid + 1, "get_user_profile")
                   /\ last' = Did("new_chat_msg", c.d, "none", <<>>, <<>>,
                                  <<ProfileFrame(uuid + 1, c.left[1])>>, "none")
                   /\ converting' = <<[c EXCEPT !.id = uuid + 1,
                                                !.left = Tail(c.left)]>>
                   /\ UNCHANGED <<command_cooldown_cache, cmdlog,
                                  waiting_for_fetches, evpc>>
              ELSE /\ command_cooldown_cache' = out.cache
                   /\ cmdlog' = Append(cmdlog, c.entry)
                   /\ waiting_for_fetches' =
                          FireAll(waiting_for, waiting_for_fetches, events)
                   /\ last' = Did("new_chat_msg", c.d, "none", events,
                                  TasksOf(listeners, events) \o out.scheduled,
                                  <<>>, "none")
                   /\ converting' = <<>>
                   /\ evpc' = AfterFrame("none")
                   /\ UNCHANGED <<uuid, issued>>
    /\ sentops' = sentops \cup SentOps(last'.sent)
    /\ UNCHANGED <<lifeVars, sessionVars, sending, waiting_for, waiters,
                   commands, nregs, listeners, now, replied, nframes>>

\* time() advances.
Tick ==
    /\ now' = now + 1
    /\ last' = Did("tick", <<>>, "none", <<>>, <<>>, <<>>, "none")
    /\ sentops' = sentops \cup SentOps(last'.sent)
    /\ UNCHANGED <<lifeVars, sessionVars, fetchVars, waitVars, cmdVars,
                   listeners, evpc, replied, nframes, converting>>

\* ---------------------------------------------------- the fetch correlator

\* Room-name lengths tried by create_room: both sides of each limit.
NameLengths == {RoomNameMin - 1, RoomNameMin, RoomNameMax, RoomNameMax + 1}

NextFetch ==
    \/ Connect
    \/ StartTasks
    \/ uuid < FetchMaxIds /\ GetTopPublicRooms
    \/ uuid < FetchMaxIds /\ \E n \in NameLengths : CreateRoom(n)
    \/ \E s \in sending : FetchResume(s)
    \/ nframes < FetchMaxFrames /\ \E d \in UserDicts : RecvAuthGood(d)
    \/ nframes < FetchMaxFrames
           /\ \E fetchId \in ReplyIds, d \in Payloads : RecvFetchDone(fetchId, d)

SpecFetch == Init /\ [][NextFetch]_vars

\* This step received a fetch_done frame.
FetchDoneStep == nframes' = nframes + 1 /\ last'.op = "fetch_done"

\* C1: the first fetch_done frame that carries the id of a fetch frame this
\* session has handed to the transport resolves to the operation of that
\* fetch, whenever it is received.
C1_ReplyResolved ==
    [][(FetchDoneStep /\ last'.input \in DOMAIN issued /\ last'.input \notin replied)
          => last'.resolved = issued[last'.input]]_vars

\* C2: a fetch_done frame whose id is recorded removes the id and resolves
\* to its operation; one whose id is absent changes no session state, fires
\* no event, schedules nothing and raises no error.
C2_ConsumedOnce ==
    [][FetchDoneStep =>
          /\ last'.input \in DOMAIN fetches =>
                 /\ last'.input \notin DOMAIN fetches'
                 /\ last'.resolved = fetches[last'.input]
          /\ last'.input \notin DOMAIN fetches =>
                 /\ UNCHANGED <<lifeVars, sessionVars, fetchVars, waitVars,
                                cmdVars, listeners>>
                 /\ last'.fired = <<>>
                 /\ last'.scheduled = <<>>
                 /\ last'.raised = "none"
                 /\ evpc' # "crashed"]_vars

\* A second fetch_done frame for an id that was recorded and consumed.
C2_Witness ==
    /\ last.op = "fetch_done"
    /\ last.resolved = "False"
    /\ last.input \in DOMAIN issued
    /\ \A s \in sending : s.id # last.input

\* C12: create_room with a name of 2 to 60 characters does not raise the size
\* error and, on a connected session, hands exactly one create_room frame
\* with a fresh id to the transport; with a shorter or longer name it raises
\* InvalidSize, sends nothing, draws no id and leaves the pending fetches
\* as they were.
C12_CreateRoomValidates ==
    [][last'.op = "create_room" =>
          IF 2 <= last'.input /\ last'.input <= 60
          THEN /\ last'.raised # "InvalidSize"
               /\ socket = "open" =>
                      /\ last'.raised = "none"
                      /\ uuid' = uuid + 1
                      /\ last'.sent = <<FetchFrame("create_room", uuid')>>
                      /\ sending' = sending \cup
                             {[id |-> uuid', op |-> "create_room", caller |-> 0]}
                      /\ fetches' = fetches
          ELSE /\ last'.raised = "InvalidSize"
               /\ last'.sent = <<>>
               /\ UNCHANGED <<fetches, sending, issued, uuid>>]_vars

\* A 61-character name has been refused on a session that has sent a
\* create_room frame for an accepted name.
C12_Witness ==
    /\ last.op = "create_room"
    /\ last.input = 61
    /\ last.raised = "InvalidSize"
    /\ \E id \in DOMAIN issued : issued[id] = "create_room"

\* C32: a fetch_done frame whose id resolves to an operation fires exactly
\* one event, the one of the operation, and leaves the session state of the
\* operation set from the reply: the rooms list for get_top_public_rooms,
\* the current room for create_room, on_user_fetch for get_user_profile.
C32_CompletionMutatesAndFires ==
    [][(FetchDoneStep /\ last'.resolved # "False") =>
          /\ Len(last'.fired) = 1
          /\ last'.resolved = "get_top_public_rooms" =>
                 /\ last'.fired[1].name = ON_ROOMS_FETCH
                 /\ \E d \in Payloads :
                        rooms' = [i \in 1..Len(d.rooms) |-> RoomFromDict(d.rooms[i])]
          /\ last'.resolved = "create_room" =>
                 /\ room' # NoRoom
                 /\ room'.users = <<user>>
          /\ last'.resolved = "get_user_profile" =>
                 last'.fired[1].name = ON_USER_FETCH
      ]_vars

\* ---------------------------------------------------- the event-wait registry

USER_BAN == From(ON_USER_BAN, 3)
ROOMS_FETCH == From(ON_ROOMS_FETCH, 3)
MESSAGE_DELETE == From(ON_MESSAGE_DELETE, 3)
M1 == <<"m", "1">>

\* The wait_for calls tried: <<event_name, timeout, check, fetch_arguments>>,
\* with a timeout that the first poll exceeds and one that leaves one poll.
WaitCalls ==
    {<<USER_BAN, 0, "None", "None">>,
     <<USER_BAN, 1, "not_u1", "None">>,
     <<ROOMS_FETCH, 1, "None", "get_top_public_rooms">>}

NextWait ==
    \/ Connect
    \/ StartTasks
    \/ \E c \in WaitCalls :
           /\ mainpc = "heartbeat"
           /\ uuid + (IF c[4] = "None" THEN 1 ELSE 2) <= WaitMaxIds
           /\ WaitFor(c[1], c[2], 1, c[3], c[4])
    \/ \E w \in DOMAIN waiters : WaitPoll(w)
    \/ \E s \in sending : FetchResume(s)
    \/ nframes < WaitMaxFrames
           /\ \E fetchId \in DOMAIN issued, d \in Payloads : RecvFetchDone(fetchId, d)
    \/ nframes < WaitMaxFrames /\ \E u \in {U1, U2} : RecvChatUserBanned(u)

SpecWait == Init /\ [][NextWait]_vars

\* One wait_for call with a check, and enough user_ban frames for its buffer
\* to hold a failing tuple before two passing ones.
NextWaitScan ==
    \/ Connect
    \/ StartTasks
    \/ \E t \in {1, 2} :
           /\ mainpc = "heartbeat"
           /\ uuid < ScanMaxIds
           /\ WaitFor(USER_BAN, t, 1, "not_u1", "None")
    \/ /\ mainpc = "heartbeat"
       /\ uuid < ScanMaxIds
       /\ WaitFor(MESSAGE_DELETE, 1, 1, "None", "None")
    \/ \E w \in DOMAIN waiters : WaitPoll(w)
    \/ nframes < ScanMaxFrames /\ \E u \in {U1, U2, U3} : RecvChatUserBanned(u)
    \/ nframes < ScanMaxFrames /\ RecvMessageDeleted(U1, M1)

SpecWaitScan == Init /\ [][NextWaitScan]_vars

\* The waiter id is registered under some event name.
Registered(wf, w) == \E name \in DOMAIN wf : w \in Range(wf[name])

\* The buffer of a waiter id, empty when it has none.
Buffer(wff, w) == IF w \in DOMAIN wff THEN wff[w] ELSE <<>>

TimedOut(w) == waiters[w].raised = "TimeoutError"

\* C3: a wait_for call that has left its polling loop without any event of
\* its name having been buffered has raised the timeout error; once it has,
\* its id is registered under no event name and no later step adds to its
\* buffer.
C3_TimeoutDeregisters ==
    /\ [](\A w \in DOMAIN waiters :
            /\ (waiters[w].pc # "sleeping" /\ waiters[w].passed > 0
                   /\ w \notin DOMAIN waiting_for_fetches) => TimedOut(w)
            /\ TimedOut(w) => ~Registered(waiting_for, w))
    /\ [][\A w \in DOMAIN waiters :
             TimedOut(w) =>
                 Buffer(waiting_for_fetches', w) = Buffer(waiting_for_fetches, w)]_vars

\* A call on user_ban has timed out and a user_ban event has fired since.
C3_Witness ==
    /\ last.op = "chat_user_banned"
    /\ \E w \in DOMAIN waiters :
           /\ TimedOut(w)
           /\ waiters[w].event_name = USER_BAN
           /\ w \notin DOMAIN waiting_for_fetches

\* C4: a wait_for call that has returned a value or raised the timeout error
\* has its id in neither self.__waiting_for nor self.__waiting_for_fetches.
C4_WaiterRemoved ==
    \A w \in DOMAIN waiters :
        (waiters[w].pc = "returned" \/ TimedOut(w)) =>
            /\ ~Registered(waiting_for, w)
            /\ w \notin DOMAIN waiting_for_fetches

\* The earliest tuple of a buffer that satisfies the check, in a list; the
\* empty list when none does.
RECURSIVE FirstSatisfying(_, _)
FirstSatisfying(data, check) ==
    IF data = <<>> THEN <<>>
    ELSE IF Check(check, Head(data)) THEN <<Head(data)>>
    ELSE FirstSatisfying(Tail(data), check)

\* C5: a wait_for call with a check returns the earliest-arrived tuple of
\* the buffer it polled that satisfies the check.
C5_EarliestSatisfying ==
    \A w \in DOMAIN waiters :
        (waiters[w].pc = "returned" /\ waiters[w].check # "None") =>
            waiters[w].got = FirstSatisfying(waiters[w].polled, waiters[w].check)

\* C6: a wait_for call that takes a tuple from its buffer returns the
\* argument itself when the tuple has one argument and the whole tuple for
\* every other arity, and raises nothing.
C6_ReturnShape ==
    \A w \in DOMAIN waiters :
        waiters[w].got # <<>> =>
            /\ waiters[w].pc = "returned"
            /\ waiters[w].result =
                   IF Len(waiters[w].got[1]) = 1
                   THEN [shape |-> "single", val |-> waiters[w].got[1]]
                   ELSE [shape |-> "tuple", val |-> waiters[w].got[1]]

\* C7: a frame that fires an event appends the event's arguments to the
\* buffer of every waiter registered under the base name and to no other
\* buffer; a poll of one wait_for call changes no other call's buffer.
C7_EachWaiterOwnCopy ==
    [][/\ (nframes' = nframes + 1 /\ Len(last'.fired) = 1) =>
              LET base == From(last'.fired[1].name, 3)
                  ids == IF base \in DOMAIN waiting_for
                         THEN Range(waiting_for[base])
                         ELSE {}
              IN  \A w \in DOMAIN waiters :
                      Buffer(waiting_for_fetches', w) =
                          IF w \in ids
                          THEN Append(Buffer(waiting_for_fetches, w), last'.fired[1].args)
                          ELSE Buffer(waiting_for_fetches, w)
       /\ (last'.op = "wait_poll" /\ waiters' # waiters) =>
              \A w \in DOMAIN waiters :
                  waiters'[w] = waiters[w] =>
                      Buffer(waiting_for_fetches', w) = Buffer(waiting_for_fetches, w)
      ]_vars

\* Two calls wait on the same event name; one has returned the tuple it took
\* and the other still holds its own copy of the same occurrence.
C7_Witness ==
    \E w, v \in DOMAIN waiters :
        /\ w # v
        /\ waiters[w].event_name = waiters[v].event_name
        /\ waiters[w].pc = "returned"
        /\ waiters[v].pc = "sleeping"
        /\ waiters[w].polled # <<>>
        /\ Buffer(waiting_for_fetches, v) = waiters[w].polled

\* The sleep of every wait_for call ends and every suspended send completes:
\* the asyncio loop resumes each of them.
SpecWaitFair ==
    /\ SpecWait
    /\ \A w \in 1..WaitMaxIds : WF_vars(WaitPoll(w))
    /\ WF_vars(\E s \in sending : FetchResume(s))

\* The wait_for call has left its polling loop.
Finished(w) == w \in DOMAIN waiters /\ waiters[w].pc \in {"returned", "raised"}

\* C31: every wait_for call that polls ends, and ends by returning or by
\* raising the timeout error; the timeout error is raised only after more
\* than the timeout has been slept, and after at most one tick more.
C31_WaitForTerminates ==
    /\ [](\A w \in DOMAIN waiters :
            /\ (Finished(w) /\ waiters[w].passed > 0) =>
                   waiters[w].pc = "returned" \/ TimedOut(w)
            /\ TimedOut(w) =>
                   /\ waiters[w].passed > waiters[w].timeout
                   /\ waiters[w].passed <= waiters[w].timeout + waiters[w].tick)
    /\ \A w \in 1..WaitMaxIds : [](w \in DOMAIN waiters => <>Finished(w))

\* ------------------------------------------------------- the command router

Text(v) == [t |-> "text", v |-> v]

\* The "msg" object of a new_chat_msg frame.
ChatDict(author, tokens) ==
    [userId |-> author, username |-> author, displayName |-> author, tokens |-> tokens]

\* The chat messages tried: "!foo", "!help", "!hello a b" and "!yo", from
\* the session's own user and from another one.
ChatDicts ==
    {ChatDict(a, t) : a \in {U1, U2},
                      t \in {<<Text(<<"!">> \o FOO)>>, <<Text(<<"!">> \o HELP)>>,
                             <<Text(<<"!">> \o HELLO), Text(<<"a">>), Text(<<"b">>)>>,
                             <<Text(<<"!">> \o YO)>>}}

\* The cooldown, in clock ticks, the commands are declared with, besides 0.
CooldownTried == 2

NextCmd ==
    \/ Connect
    \/ StartTasks
    \/ \E func \in {HandlerFoo, HandlerHelp, HandlerHello}, cd \in {0, CooldownTried} :
           /\ mainpc = "init"
           /\ nregs < CmdMaxRegs
           /\ DeclareCommand(func, None, cd, <<>>)
    \/ nframes < CmdMaxFrames /\ user = NoUser /\ RecvAuthGood(UserDict(U1, None))
    \/ nframes < CmdMaxFrames /\ \E d \in ChatDicts : RecvNewChatMsg(d)
    \/ now < CmdMaxTime /\ Tick

SpecCmd == Init /\ [][NextCmd]_vars

\* C8: when an invocation of a command with a positive cooldown has
\* scheduled the handler, every later invocation of the command by the same
\* user inside the cooldown window is throttled: it schedules nothing and
\* fires on_cooldown_trigger once, with a positive remaining time.
C8_ThrottledInsideWindow ==
    \A i, j \in 1..Len(cmdlog) :
        (/\ i < j
         /\ cmdlog[i].name = cmdlog[j].name
         /\ cmdlog[i].user = cmdlog[j].user
         /\ cmdlog[i].kind = "Scheduled"
         /\ cmdlog[i].cooldown > 0
         /\ cmdlog[j].at - cmdlog[i].at < cmdlog[i].cooldown)
        => /\ cmdlog[j].kind = "Throttled"
           /\ cmdlog[j].scheduled = <<>>
           /\ Len(cmdlog[j].fired) = 1
           /\ cmdlog[j].fired[1].name = ON_COOLDOWN_TRIGGER
           /\ cmdlog[j].fired[1].args[4] > 0

\* The chat messages tried on a command declared with an alias: its name,
\* its name in capitals and its alias, from two other users.
SpellChats ==
    {ChatDict(a, <<Text(<<"!">> \o n)>>) :
        a \in {U2, U3}, n \in {HELP, <<"H", "E", "L", "P">>, HI}}

\* @dogehouse.command(cooldown=2, aliases=["hi"]) on help.
NextSpell ==
    \/ Connect
    \/ StartTasks
    \/ /\ mainpc = "init"
       /\ nregs < SpellMaxRegs
       /\ DeclareCommand(HandlerHelp, None, CooldownTried, <<HI>>)
    \/ nframes < SpellMaxFrames /\ user = NoUser /\ RecvAuthGood(UserDict(U1, None))
    \/ nframes < SpellMaxFrames /\ \E d \in SpellChats : RecvNewChatMsg(d)
    \/ now < CmdMaxTime /\ Tick

SpecSpell == Init /\ [][NextSpell]_vars

\* Invocation j follows invocation i of the same command (the same entry of
\* the command table, under whatever name) by the same user inside the
\* cooldown window that i has opened by scheduling the handler.
InsideWindow(i, j) ==
    /\ i < j
    /\ cmdlog[i].user = cmdlog[j].user
    /\ cmdlog[i].kind = "Scheduled"
    /\ cmdlog[i].cooldown > 0
    /\ Lower(cmdlog[i].name) \in DOMAIN commands
    /\ Lower(cmdlog[j].name) \in DOMAIN commands
    /\ commands[Lower(cmdlog[i].name)] = commands[Lower(cmdlog[j].name)]
    /\ cmdlog[j].at - cmdlog[i].at < cmdlog[i].cooldown

\* C39: an invocation inside the cooldown window of the same command for the
\* same user is throttled whatever the spelling of the name, and an
\* invocation is throttled only when the same user has opened such a window.
C39_CooldownPerCommandAndUser ==
    \A j \in 1..Len(cmdlog) :
        /\ (\E i \in 1..Len(cmdlog) : InsideWindow(i, j)) => cmdlog[j].kind = "Throttled"
        /\ cmdlog[j].kind = "Throttled" => \E i \in 1..Len(cmdlog) : InsideWindow(i, j)

\* ------------------------------------------------------ the command registry

\* The registrations tried: a handler under its own name, under "hi" in two
\* spellings, and with aliases.
NextReg ==
    \/ \E func \in {HandlerFoo, HandlerHelp}, name \in {None, HI, <<"H", "I">>},
          aliases \in {<<>>, <<HI>>, <<YO, HI>>} :
           /\ nregs < RegMaxRegs
           /\ DeclareCommand(func, name, 0, aliases)
    \/ \E func \in {HandlerBound}, name \in {None, HI} :
           /\ nregs < RegMaxRegs
           /\ InstanceCommand(func, name)

SpecReg == Init /\ [][NextReg]_vars

\* This step applied the module-level decorator.
DeclareStep == nregs' = nregs + 1 /\ last'.op = "command"

\* This step applied the decorator of DogeClient.command.
InstanceStep == nregs' = nregs + 1 /\ last'.op = "client.command"

\* Every entry of the command table is still there, with its handler.
EntriesKept ==
    \A n \in DOMAIN commands : n \in DOMAIN commands' /\ commands'[n] = commands[n]

\* C9: a declaration one of whose names is already in the command table
\* raises CommandAlreadyDefined, and leaves every entry that was in the
\* table mapped to its handler.
C9_ConflictRaises ==
    [][(DeclareStep /\ \E i \in 1..Len(last'.input) : last'.input[i] \in DOMAIN commands)
          => (last'.raised = "CommandAlreadyDefined" /\ EntriesKept)]_vars

\* A declaration under the alias "hi" has failed and "hi" is still in the
\* table.
C9_Witness ==
    /\ last.op = "command"
    /\ last.raised = "CommandAlreadyDefined"
    /\ \E i \in 1..Len(last.input) : last.input[i] = HI
    /\ HI \in DOMAIN commands

\* C38: a declaration that raises CommandAlreadyDefined leaves the command
\* table as it was: none of its names has been added.
C38_RegistrationAllOrNothing ==
    [][(DeclareStep /\ last'.raised = "CommandAlreadyDefined")
          => commands' = commands]_vars

\* C10: DogeClient.command under a name that is already in the command
\* table raises, and leaves every entry that was in the table mapped to its
\* handler.
C10_InstanceConflictRaises ==
    [][(InstanceStep /\ last'.input[1] \in DOMAIN commands)
          => (last'.raised # "none" /\ EntriesKept)]_vars

\* ------------------------------------------- commands of DogeClient.command

\* The chat messages tried: "!hello" and "!hi", from the session's own user
\* and from another one.
BoundChats ==
    {ChatDict(a, t) : a \in {U1, U2},
                      t \in {<<Text(<<"!">> \o HELLO)>>, <<Text(<<"!">> \o HI)>>}}

NextBound ==
    \/ Connect
    \/ StartTasks
    \/ \E name \in {None, HI} :
           /\ mainpc = "init"
           /\ nregs < BoundMaxRegs
           /\ InstanceCommand(HandlerBound, name)
    \/ nframes < BoundMaxFrames /\ user = NoUser /\ RecvAuthGood(UserDict(U1, None))
    \/ nframes < BoundMaxFrames /\ \E d \in BoundChats : RecvNewChatMsg(d)
    \/ now < CmdMaxTime /\ Tick

SpecBound == Init /\ [][NextBound]_vars

\* C11: every invocation, by a chat message of another user, of a command
\* that DogeClient.command registered schedules the handler.
C11_BoundCommandScheduled ==
    \A i \in 1..Len(cmdlog) :
        (/\ Lower(cmdlog[i].name) \in DOMAIN commands
         /\ commands[Lower(cmdlog[i].name)][2]
         /\ cmdlog[i].user # user.id)
        => /\ cmdlog[i].kind = "Scheduled"
           /\ cmdlog[i].scheduled # <<>>

\* C24: every invocation execute_command has handled ended as Scheduled,
\* NotFound, Throttled or ArityError, and a handler was scheduled only by an
\* invocation that ended as Scheduled.
C24_FourOutcomes ==
    \A i \in 1..Len(cmdlog) :
        /\ cmdlog[i].kind \in {"Scheduled", "NotFound", "Throttled", "ArityError"}
        /\ cmdlog[i].scheduled # <<>> => cmdlog[i].kind = "Scheduled"

\* ---------------------------------------------------------- roster frames

\* A member of the "peoplePreviewList" of a room object.
PreviewDict(id) == [id |-> id, displayName |-> id]

\* The rooms of the join_room_done frames tried: one without previews, one
\* whose previews already list the session's user.
JoinedRooms ==
    {RoomDict(R1, U1),
     [RoomDict(R1, U2) EXCEPT !.peoplePreviewList = <<PreviewDict(U1)>>]}

\* The rosters of the get_current_room_users_done frames tried.
RosterDicts == {<<UserDict(U1, R1), UserDict(U2, R1)>>, <<UserDict(U2, R1)>>}

\* The session's user is not yet in a room when auth-good arrives, so no
\* frame tried toggles a flag of the object self.user shares with the roster.
NextRoster ==
    \/ Connect
    \/ StartTasks
    \/ nframes < RosterMaxFrames /\ user = NoUser /\ RecvAuthGood(UserDict(U1, None))
    \/ nframes < RosterMaxFrames /\ \E d \in JoinedRooms : RecvJoinRoomDone(d)
    \/ nframes < RosterMaxFrames /\ \E ds \in RosterDicts : RecvRoomUsersDone(ds)
    \/ nframes < RosterMaxFrames /\ RecvNewUserJoinRoom(UserDict(U2, R1))
    \/ nframes < RosterMaxFrames /\ RecvUserLeftRoom(U2)
    \/ nframes < RosterMaxFrames
           /\ \E op \in {"mod_changed", "new_room_creator"}, u \in {U1, U2} :
                  RecvPermissionChanged(op, u, R1)

SpecRoster == Init /\ [][NextRoster]_vars

\* The positions in a sequence of events of those whose first argument is
\* the user with the id.
EventsFor(events, id) == {k \in 1..Len(events) : events[k].args[1].id = id}

\* C13: when a new_room_creator frame promotes a roster member while another
\* member holds the admin flag, the holder's flag is cleared, exactly one
\* event is fired for the holder, it is the permission-change event and
\* shows the flag cleared, and it comes before the event fired for the
\* promoted member, which shows the flag set.
C13_DemotionBeforePromotion ==
    [][(/\ last'.op = "new_room_creator"
        /\ nframes' = nframes + 1
        /\ room # NoRoom
        /\ FirstInRoom(room.users, last'.input[1], last'.input[2]) # 0)
       => \A i \in 1..Len(room.users) :
              (room.users[i].is_admin /\ room.users[i].id # last'.input[1])
              => /\ ~room'.users[i].is_admin
                 /\ Cardinality(EventsFor(last'.fired, room.users[i].id)) = 1
                 /\ \A k \in EventsFor(last'.fired, room.users[i].id) :
                        /\ last'.fired[k].name = ON_PERMISSION_CHANGE
                        /\ ~last'.fired[k].args[1].is_admin
                        /\ \E p \in EventsFor(last'.fired, last'.input[1]) :
                               /\ k < p
                               /\ last'.fired[p].args[1].is_admin
                 /\ \E j \in 1..Len(room'.users) :
                        room'.users[j].id = last'.input[1] /\ room'.users[j].is_admin
      ]_vars

\* A new_room_creator frame has demoted one member and promoted another.
C13_Witness ==
    /\ last.op = "new_room_creator"
    /\ Len(last.fired) = 2
    /\ last.fired[1].name = ON_PERMISSION_CHANGE
    /\ last.fired[2].name = ON_PERMISSIONS_CHANGE
    /\ last.fired[1].args[1].id # last.fired[2].args[1].id
    /\ last.fired[2].args[1].is_admin

\* This step received the frame op.
RosterStep(op) == nframes' = nframes + 1 /\ last'.op = op /\ room' # NoRoom

\* C14: the roster never holds two members with the same id, and each
\* roster frame leaves the membership that the frame's delta gives: a join
\* confirmation the previews and the session's user, a refresh the users of
\* the frame, a user-joined frame one member more, a user-left frame that
\* member less.
C14_RosterNetEffect ==
    /\ [](room # NoRoom =>
            \A i, j \in 1..Len(room.users) :
                i # j => room.users[i].id # room.users[j].id)
    /\ [][/\ RosterStep("join_room_done") =>
                Ids(room') = {last'.input.peoplePreviewList[i].id :
                                 i \in 1..Len(last'.input.peoplePreviewList)}
                             \cup {user.id}
          /\ RosterStep("get_current_room_users_done") =>
                Ids(room') = {last'.input[i].id : i \in 1..Len(last'.input)}
          /\ RosterStep("new_user_join_room") =>
                Ids(room') = Ids(room) \cup {last'.input.id}
          /\ RosterStep("user_left_room") =>
                Ids(room') = Ids(room) \ {last'.input}
         ]_vars

\* C37: while the session is active and __main is in heartbeat, no frame has
\* ended the event_loop task with an exception.
C37_DispatcherKeepsRunning ==
    (active /\ mainpc \in {"heartbeat", "ping", "sleep"}) => evpc # "crashed"

\* ------------------------------------------------------- the admin flag

USER_FETCH == From(ON_USER_FETCH, 3)

\* The user profiles of the fetch_done frames tried.
Profiles == {[rooms |-> <<>>, room |-> RoomDict(R1, U1), user |-> u] : u \in UserDicts}

\* The roster frames and the replies to get_user_profile, which a
\* wait_for("user_fetch", fetch_arguments=("get_user_profile", ...)) issues.
\* As in NextRoster no frame toggles a flag of the object self.user.
NextAdmin ==
    \/ Connect
    \/ StartTasks
    \/ nframes < AdminMaxFrames /\ user = NoUser /\ RecvAuthGood(UserDict(U1, None))
    \/ nframes < AdminMaxFrames /\ user # NoUser
           /\ \E d \in JoinedRooms : RecvJoinRoomDone(d)
    \/ nframes < AdminMaxFrames /\ \E ds \in RosterDicts : RecvRoomUsersDone(ds)
    \/ nframes < AdminMaxFrames /\ RecvNewUserJoinRoom(UserDict(U2, R1))
    \/ nframes < AdminMaxFrames /\ RecvUserLeftRoom(U2)
    \/ nframes < AdminMaxFrames
           /\ \E u \in {U1, U2} : RecvPermissionChanged("new_room_creator", u, R1)
    \/ /\ mainpc = "heartbeat"
       /\ uuid + 2 <= AdminMaxIds
       /\ WaitFor(USER_FETCH, 1, 1, "None", "get_user_profile")
    \/ \E s \in sending : FetchResume(s)
    \/ nframes < AdminMaxFrames
           /\ \E fetchId \in DOMAIN fetches, d \in Profiles : RecvFetchDone(fetchId, d)

SpecAdmin == Init /\ [][NextAdmin]_vars

\* The positions of the roster members that hold the admin flag.
Admins(r) == {i \in 1..Len(r.users) : r.users[i].is_admin}

NextJoin ==
    \/ Connect
    \/ StartTasks
    \/ nframes < JoinMaxFrames /\ user = NoUser /\ RecvAuthGood(UserDict(U1, None))
    \/ mainpc = "heartbeat" /\ uuid < JoinMaxIds /\ CreateRoom(RoomNameMin)
    \/ \E s \in sending : FetchResume(s)
    \/ nframes < JoinMaxFrames
           /\ \E fetchId \in DOMAIN issued, d \in Payloads : RecvFetchDone(fetchId, d)
    \/ nframes < JoinMaxFrames /\ \E d \in JoinedRooms : RecvJoinRoomDone(d)
    \/ nframes < JoinMaxFrames /\ "create_room" \in sentops /\ RecvYouJoinedAsSpeaker

SpecJoin == Init /\ [][NextJoin]_vars

\* This step fired on_room_join.
RoomJoinFired ==
    /\ nframes' = nframes + 1
    /\ \E k \in 1..Len(last'.fired) : last'.fired[k].name = ON_ROOM_JOIN

\* C33: when on_room_join has been fired, with either flag, the current room
\* is set (to the room of the frame when the frame carries one), the
\* session's user is in its roster and a get_current_room_users request has
\* been handed to the transport.
C33_JoinedBeforeEvent ==
    [][RoomJoinFired =>
          /\ room' # NoRoom
          /\ last'.op = "join_room_done" => room'.id = last'.input.id
          /\ user.id \in Ids(room')
          /\ "get_current_room_users" \in sentops'
      ]_vars

\* ------------------------------------------------------ the session's end

\* The closures tried: a clean one, an abnormal one and the one that signals
\* invalid credentials.
Closures == {<<"ok", 1000>>, <<"error", 1006>>, <<"error", AuthFailureCode>>}

\* Once run() has ended its event loop runs no task any more.
NextLife ==
    \/ Connect
    \/ StartTasks
    \/ Close
    \/ \E c \in Closures : RemoteClose(c[1], c[2])
    \/ Heartbeat
    \/ PingDone
    \/ result = "running" /\ RecvClosed
    \/ (IF active /\ room = NoRoom THEN uuid < LifeMaxIds ELSE TRUE) /\ TopRooms
    \/ \E s \in sending : TopRoomsResume(s)
    \/ /\ nframes < LifeMaxFrames /\ closed = NotClosed /\ result = "running"
       /\ user = NoUser
       /\ RecvAuthGood(UserDict(U1, None))
    \/ /\ nframes < LifeMaxFrames /\ closed = NotClosed /\ result = "running"
       /\ \E fetchId \in DOMAIN issued : RecvFetchDone(fetchId, CHOOSE d \in Payloads : TRUE)
    \/ /\ nframes < LifeMaxFrames /\ closed = NotClosed /\ result = "running"
       /\ RecvJoinRoomDone(RoomDict(R1, U1))

SpecLife == Init /\ [][NextLife]_vars

\* heartbeat() is resumed when its send or its sleep completes.
SpecLifeFair == SpecLife /\ WF_vars(Heartbeat) /\ WF_vars(PingDone)

\* run() has ended.
Ended == result \notin {"none", "running"}

\* C15: whenever run() has ended, after a clean closure, a closure with an
\* error code or a close(), self.__active is False.
C15_EndedInactive == Ended => ~active

\* C16: a closure with code 4004 that ends run() makes it raise
\* InvalidAccessToken; run() raises InvalidAccessToken for no other closure,
\* and a clean closure or one with another code makes it return.
C16_AuthFailureOnly ==
    /\ result = "InvalidAccessToken" =>
           closed.kind = "error" /\ closed.code = 4004
    /\ (Ended /\ ~close_called /\ closed.kind = "error" /\ closed.code = 4004) =>
           result = "InvalidAccessToken"
    /\ (Ended /\ ~close_called /\ ~(closed.kind = "error" /\ closed.code = 4004)) =>
           result = "returned"

\* run() has raised InvalidAccessToken after a closure with code 4004.
C16_Witness ==
    /\ result = "InvalidAccessToken"
    /\ closed.code = 4004
    /\ last.raised = "ConnectionClosedError"

\* C17: close() on a session that has no socket raises
\* NoConnectionException and changes no field of the session.
C17_CloseWithoutConnection ==
    [][(last'.op = "close" /\ socket = "none") =>
          /\ last'.raised = "NoConnectionException"
          /\ UNCHANGED <<active, socket, user, room, rooms, fetches, uuid, sending,
                         waiting_for, waiting_for_fetches, waiters, listeners,
                         commands, command_cooldown_cache, mainpc, evpc, toppc,
                         result, closed>>]_vars

\* close() has raised on a session that never connected.
C17_Witness ==
    /\ last.op = "close"
    /\ last.raised = "NoConnectionException"
    /\ socket = "none"
    /\ ~active

\* C18: once close() has cleared self.__active, heartbeat hands no further
\* "ping" to the transport, get_top_rooms_loop issues no further fetch and
\* ends when it is resumed, and the event_loop task is done after the one
\* frame it receives.
C18_LoopsExit ==
    [][close_called =>
          /\ last'.op \in {"heartbeat", "ping_done"} =>
                 /\ last'.sent = <<>>
                 /\ mainpc' \in {"sleep", "ended"}
          /\ last'.op = "top_rooms" =>
                 /\ last'.sent = <<>>
                 /\ uuid' = uuid
                 /\ toppc' = "done"
          /\ nframes' = nframes + 1 => evpc' \in {"done", "crashed"}]_vars

\* After close() every loop has ended: the event_loop task after a frame,
\* the refresh loop and heartbeat after their sleep.
C18_Witness ==
    /\ close_called
    /\ nframes > 0
    /\ evpc = "done"
    /\ toppc = "done"
    /\ mainpc = "ended"
    /\ last.op = "heartbeat"

\* C19: once close() has been called on a connected session, or the remote
\* side has closed the connection cleanly, run() ends, and it ends only by
\* returning.
C19_RunReturnsNormally ==
    /\ []((Ended /\ (close_called \/ closed.kind = "ok")) => result = "returned")
    /\ ((close_called \/ closed.kind = "ok") ~> result = "returned")

\* ---------------------------------------------------- the session's start

\* get_top_public_rooms() is called at any time, before run() too; close()
\* may end the session.
NextSession ==
    \/ Connect
    \/ StartTasks
    \/ Heartbeat
    \/ PingDone
    \/ Close
    \/ uuid < SessionMaxIds /\ GetTopPublicRooms
    \/ \E s \in sending : FetchResume(s)
    \/ nframes < SessionMaxFrames /\ user = NoUser /\ RecvAuthGood(UserDict(U1, None))
    \/ nframes < SessionMaxFrames /\ \E u \in {U1, U2} : RecvChatUserBanned(u)

\* __main is resumed when the send of the auth frame completes, heartbeat()
\* when its send or its sleep completes.
SpecSession ==
    /\ Init /\ [][NextSession]_vars
    /\ WF_vars(StartTasks) /\ WF_vars(Heartbeat) /\ WF_vars(PingDone)

\* This step handed "ping" to the transport.
PingSent == last'.op = "heartbeat" /\ last'.sent # <<>>

\* C36: the first frame handed to the transport is the auth frame, and no
\* inbound frame is received before it; a "ping" is followed by a sleep of
\* heartbeat before the next one; and in a session that stays active
\* heartbeat sends "ping" again and again.
C36_AuthFirstThenHeartbeat ==
    /\ [][/\ (sentops = {} /\ last'.sent # <<>>) =>
                 last'.op = "connect" /\ sentops' = {"auth"}
          /\ nframes' # nframes => "auth" \in sentops
          /\ PingSent => mainpc \in {"heartbeat", "sleep"} /\ mainpc' = "ping"
          /\ (mainpc = "ping" /\ mainpc' # "ping") => mainpc' \in {"sleep", "ended"}
         ]_vars
    /\ (<>[](active /\ result = "running") => []<>(mainpc = "ping"))

\* The heartbeat has sent "ping", slept and sent "ping" again, after a fetch
\* was tried before the session connected.
C36_Witness ==
    /\ mainpc = "ping"
    /\ last.op = "heartbeat"
    /\ sentops = {"auth", "ping", "get_top_public_rooms"}
    /\ uuid = SessionMaxIds
    /\ fetches = EmptyMap
    /\ sending # {}
    /\ nframes > 0

\* ------------------------------------------------- errors of the routing

\* The chat messages tried, all of another user: an unknown command, "!hello"
\* without and with its argument, and "!hi".
ErrChats ==
    {ChatDict(U2, t) :
        t \in {<<Text(<<"!">> \o YO)>>, <<Text(<<"!">> \o HELLO)>>,
               <<Text(<<"!">> \o HELLO), Text(<<"a">>)>>, <<Text(<<"!">> \o HI)>>}}

NextErr ==
    \/ Connect
    \/ StartTasks
    \/ mainpc = "init" /\ ON_ERROR \notin DOMAIN listeners /\ DeclareEvent(ON_ERROR)
    \/ mainpc = "init" /\ nregs < ErrMaxRegs /\ DeclareCommand(HandlerHello, None, 0, <<>>)
    \/ mainpc = "init" /\ nregs < ErrMaxRegs /\ InstanceCommand(HandlerBound, HI)
    \/ nframes < ErrMaxFrames /\ user = NoUser /\ RecvAuthGood(UserDict(U1, None))
    \/ nframes < ErrMaxFrames /\ \E d \in ErrChats : RecvNewChatMsg(d)

SpecErr == Init /\ [][NextErr]_vars

\* This step routed a chat message to execute_command, which raised.
RoutingFailed ==
    /\ last'.op = "new_chat_msg"
    /\ Len(cmdlog') = Len(cmdlog) + 1
    /\ cmdlog'[Len(cmdlog')].raised # "none"

\* C20: when execute_command raises for a chat message, no exception leaves
\* the new_chat_msg branch and the event_loop task goes back to recv; with an
\* on_error listener the last event fired is on_error with the exception
\* and the listener is scheduled with it, without one no on_error is fired
\* and no listener is scheduled for it.
C20_RoutingErrorsCaught ==
    [][RoutingFailed =>
          /\ last'.raised = "none"
          /\ evpc' = IF active THEN "recv" ELSE "done"
          /\ IF ON_ERROR \in DOMAIN listeners
             THEN /\ last'.fired[Len(last'.fired)] =
                         Event(ON_ERROR, <<cmdlog'[Len(cmdlog')].raised>>)
                  /\ \E k \in 1..Len(last'.scheduled) :
                         /\ last'.scheduled[k].fn = ON_ERROR
                         /\ last'.scheduled[k].args =
                                <<"self", cmdlog'[Len(cmdlog')].raised>>
             ELSE /\ \A k \in 1..Len(last'.fired) : last'.fired[k].name # ON_ERROR
                  /\ \A k \in 1..Len(last'.scheduled) : last'.scheduled[k].fn # ON_ERROR
      ]_vars

\* With an on_error listener, an unknown command and an arity failure have
\* been routed, and a further chat message has been processed after them.
C20_Witness ==
    /\ ON_ERROR \in DOMAIN listeners
    /\ last.op = "new_chat_msg"
    /\ evpc = "recv"
    /\ Len(cmdlog) = 3
    /\ cmdlog[1].raised = "CommandNotFound"
    /\ cmdlog[2].raised = "NotEnoughArguments"
    /\ cmdlog[3].raised = "none"

\* ------------------------------------------------- handlers that never end

\* The chat messages tried, of another user: "!help" and "hi".
HandlerChats ==
    {ChatDict(U2, t) : t \in {<<Text(<<"!">> \o HELP)>>, <<Text(HI)>>}}

\* Listeners of on_ready and on_message and the command help are declared
\* before the session connects.  The tasks ensure_future has scheduled are
\* never run in these behaviours: every listener and every command handler
\* is one that never completes.
NextHandlers ==
    \/ Connect
    \/ StartTasks
    \/ \E name \in {ON_READY, ON_MESSAGE} :
           mainpc = "init" /\ name \notin DOMAIN listeners /\ DeclareEvent(name)
    \/ mainpc = "init" /\ nregs < HandlersMaxRegs
           /\ DeclareCommand(HandlerHelp, None, 0, <<>>)
    \/ nframes < HandlersMaxFrames /\ user = NoUser /\ RecvAuthGood(UserDict(U1, None))
    \/ nframes < HandlersMaxFrames /\ \E d \in HandlerChats : RecvNewChatMsg(d)

SpecHandlers == Init /\ [][NextHandlers]_vars

\* C35: a frame whose branch started a listener or a command handler and
\* raised nothing leaves the event_loop task, while the session is active,
\* at its next "await self.__socket.recv()".
C35_HandlersDoNotBlock ==
    [][(nframes' = nframes + 1 /\ last'.scheduled # <<>>
           /\ last'.raised = "none" /\ active)
       => evpc' = "recv"]_vars

\* A listener and a command handler have been started for one chat message,
\* and a later chat message has been received and has started them again.
C35_Witness ==
    /\ last.op = "new_chat_msg"
    /\ Len(last.scheduled) = 2
    /\ Len(cmdlog) >= 2
    /\ cmdlog[1].kind = "Scheduled"
    /\ cmdlog[Len(cmdlog)].kind = "Scheduled"
    /\ evpc = "recv"

\* ------------------------------------------------------ sending chat text

\* The words tried: plain words, markers of every kind, and words that carry
\* a marker but are shorter than its threshold.
Words ==
    {<<"h", "i">>, <<"@", "b">>, <<"@", "b", "o", "b">>, <<":", "w", ":">>,
     <<"h", "t", "t", "p", ":", "/", "/", "x">>, <<Backtick, "c", Backtick>>}

\* "hello @bob :wave: http://x"
Example ==
    <<"h", "e", "l", "l", "o", " ", "@", "b", "o", "b", " ", ":", "w", "a", "v", "e", ":",
      " ", "h", "t", "t", "p", ":", "/", "/", "x">>

\* "hi  ::": an empty word between two spaces and a too short emote.
Spaced == <<"h", "i", " ", " ", ":", ":">>

RECURSIVE WordSeqs(_)
WordSeqs(n) ==
    IF n = 0 THEN {<<>>}
    ELSE WordSeqs(n - 1) \cup {Append(ws, w) : ws \in WordSeqs(n - 1), w \in Words}

\* The texts tried: up to SendMaxWords words joined by single spaces.
Sentences == {Join(ws, <<" ">>) : ws \in WordSeqs(SendMaxWords)} \cup {Example, Spaced}

NextSend ==
    \/ Connect
    \/ StartTasks
    \/ nframes < SendMaxFrames /\ user = NoUser /\ RecvAuthGood(UserDict(U1, None))
    \/ nframes < SendMaxFrames /\ RecvJoinRoomDone(RoomDict(R1, U1))
    \/ room # NoRoom /\ \E message \in Sentences : Send(message)

SpecSend == Init /\ [][NextSend]_vars

\* C23: the tokens send() puts on the wire for a text, reassembled by
\* parse_tokens_to_message, give the text back character for character.
C23_TokensRoundTrip ==
    [][(last'.op = "send" /\ last'.raised = "none") =>
          ParseTokensToMessage(last'.sent[1].d.tokens) = last'.input]_vars

\* The text of the example has been sent as a text, a mention, an emote and
\* a link token.
C23_Witness ==
    /\ last.op = "send"
    /\ last.input = Example
    /\ Len(last.sent) = 1
    /\ [i \in 1..Len(last.sent[1].d.tokens) |-> last.sent[1].d.tokens[i].t]
           = <<"text", "mention", "emote", "link">>

\* ------------------------------------------------- resolving a roster member

\* The "user" object of a member with its own username and display name.
MemberDict(id, username, displayName) ==
    [UserDict(id, R1) EXCEPT !.username = username, !.displayName = displayName]

\* Three members: the username and the display name of each is, in another
\* case, the id of another one.
MA == MemberDict(<<"A", "b">>, <<"C", "d">>, <<"E", "f">>)
MB == MemberDict(<<"c", "d">>, <<"e", "f">>, <<"a", "b">>)
MC == MemberDict(<<"e", "f">>, <<"g", "h">>, <<"C", "d">>)

\* The arguments tried: ids, usernames and display names in either case, a
\* mention, a mention too short to be one, and a name nobody has.
UserArguments ==
    {<<"a", "b">>, <<"c", "d">>, <<"e", "f">>, <<"g", "h">>, <<"C", "D">>,
     <<"@", "c", "d">>, <<"@", "c">>, <<"z", "z">>}

NextUsers ==
    \/ Connect
    \/ StartTasks
    \/ nframes < UsersMaxFrames /\ user = NoUser /\ RecvAuthGood(UserDict(U1, None))
    \/ nframes < UsersMaxFrames /\ room = NoRoom /\ RecvJoinRoomDone(RoomDict(R1, U1))
    \/ nframes < UsersMaxFrames /\ \E d \in {MA, MB, MC} : RecvNewUserJoinRoom(d)
    \/ \E argument \in UserArguments : GetUserCall(argument)

SpecUsers == Init /\ [][NextUsers]_vars

\* The positions of the roster whose attribute, lowered, is the key.
WithAttribute(users, attribute, key) ==
    {i \in 1..Len(users) :
        LET attrs == IF attribute = "id" THEN users[i].id
                     ELSE IF attribute = "username" THEN users[i].username
                     ELSE users[i].displayname
        IN  IF attrs = None THEN FALSE ELSE Lower(attrs) = key}

Earliest(S) == CHOOSE i \in S : \A j \in S : i <= j

\* C22: with a room joined, get_user lowers the argument (a mention without
\* its "@") and returns the earliest roster member whose lowered id is that
\* key; when no id is, the earliest whose lowered username is; when no
\* username is either, the earliest whose lowered display name is; and it
\* raises MemberNotFound exactly when no member matches in any of the three.
C22_ResolutionOrder ==
    [][(last'.op = "get_user" /\ room # NoRoom) =>
          LET argument == last'.input
              key == Lower(IF Len(argument) >= 3 /\ argument[1] = "@"
                           THEN Tail(argument) ELSE argument)
              byId == WithAttribute(room.users, "id", key)
              byUsername == WithAttribute(room.users, "username", key)
              byDisplayname == WithAttribute(room.users, "displayname", key)
          IN  IF byId # {}
              THEN last'.raised = "none" /\ last'.resolved = room.users[Earliest(byId)]
              ELSE IF byUsername # {}
              THEN last'.raised = "none"
                   /\ last'.resolved = room.users[Earliest(byUsername)]
              ELSE IF byDisplayname # {}
              THEN last'.raised = "none"
                   /\ last'.resolved = room.users[Earliest(byDisplayname)]
              ELSE last'.raised = "MemberNotFound"]_vars

\* get_user("CD") has returned the member with id "cd" although an earlier
\* member has the username "Cd" and another earlier one the display name.
C22_Witness ==
    /\ last.op = "get_user"
    /\ last.input = <<"C", "D">>
    /\ last.raised = "none"
    /\ last.resolved.id = <<"c", "d">>
    /\ room # NoRoom
    /\ Len(room.users) = 4
    /\ room.users[2].username = <<"C", "d">>
    /\ room.users[3].displayname = <<"C", "d">>
    /\ room.users[4].id = <<"c", "d">>

\* ------------------------------------------- commands with a user parameter

ALICE == <<"a", "l", "i", "c", "e">>
BOB == <<"b", "o", "b">>
Mention(v) == [t |-> "mention", v |-> v]

\* The chat messages tried, all of another user: "!greet @alice",
\* "!greet @bob", "!greet", "!pepe @alice" and "!pepe".
GreetChats ==
    {ChatDict(U2, t) :
        t \in {<<Text(<<"!">> \o GREET), Mention(ALICE)>>,
               <<Text(<<"!">> \o GREET), Mention(BOB)>>,
               <<Text(<<"!">> \o GREET)>>,
               <<Text(<<"!">> \o PEPE), Mention(ALICE)>>,
               <<Text(<<"!">> \o PEPE)>>}}

\* pepe is declared with cooldown=5 and two aliases (examples/telemetry.py).
NextGreet ==
    \/ Connect
    \/ StartTasks
    \/ mainpc = "init" /\ nregs < GreetMaxRegs /\ DeclareCommand(HandlerGreet, None, 0, <<>>)
    \/ mainpc = "init" /\ nregs < GreetMaxRegs
           /\ DeclareCommand(HandlerPepe, None, 5,
                             <<PEPE \o <<"s">>, PEPE \o <<"'", "s">>>>)
    \/ nframes < GreetMaxFrames /\ user = NoUser /\ RecvAuthGood(UserDict(U1, None))
    \/ nframes < GreetMaxFrames /\ room = NoRoom /\ RecvJoinRoomDone(RoomDict(R1, U1))
    \/ nframes < GreetMaxFrames
           /\ RecvNewUserJoinRoom(MemberDict(<<"a", "1">>, ALICE, ALICE))
    \/ nframes < GreetMaxFrames /\ \E d \in GreetChats : RecvNewChatMsg(d)
    \/ ConvertResume

SpecGreet == Init /\ [][NextGreet]_vars

\* C21: in a joined room, a chat message "!greet @name" of another user, for
\* the registered command greet(self, ctx, user: User), schedules greet with
\* the roster entry that get_user finds for "name" when there is one, and
\* otherwise raises MemberNotFound in the routing and schedules no handler.
C21_MentionResolved ==
    [][(/\ last'.op = "new_chat_msg"
        /\ Len(cmdlog') = Len(cmdlog) + 1
        /\ cmdlog'[Len(cmdlog')].name = GREET
        /\ GREET \in DOMAIN commands
        /\ Len(last'.input.tokens) = 2
        /\ room # NoRoom)
       => LET entry == cmdlog'[Len(cmdlog')]
              at == Resolve(room.users, Lower(last'.input.tokens[2].v))
          IN  IF at # 0
              THEN /\ entry.kind = "Scheduled"
                   /\ Len(entry.scheduled) = 1
                   /\ entry.scheduled[1].fn = GREET
                   /\ entry.scheduled[1].kwargs[1].key = "user"
                   /\ entry.scheduled[1].kwargs[1].value.ty = "User"
                   /\ entry.scheduled[1].kwargs[1].value.v = room.users[at]
              ELSE /\ entry.raised = "MemberNotFound"
                   /\ entry.scheduled = <<>>]_vars

\* C40: while the conversion of a command's arguments is suspended in the
\* send of its fetch, the dispatcher is at its recv and can take the next
\* inbound frame.
C40_ConversionDoesNotDelay == converting # <<>> => evpc = "recv"

\* ------------------------------------------------------ binding arguments

\* The chat messages tried: of another user "!help", "!help foo", "!hello",
\* "!echo x", "!add 1 2", "!add x 2", "!add 1" and "!a", and "!help" of the
\* session's own user.
BindChats ==
    {ChatDict(U1, <<Text(<<"!">> \o HELP)>>)} \cup
    {ChatDict(U2, t) :
        t \in {<<Text(<<"!">> \o HELP)>>,
               <<Text(<<"!">> \o HELP), Text(FOO)>>,
               <<Text(<<"!">> \o HELLO)>>,
               <<Text(<<"!">> \o ECHO), Text(<<"x">>)>>,
               <<Text(<<"!">> \o ADD), Text(<<"1">>), Text(<<"2">>)>>,
               <<Text(<<"!">> \o ADD), Text(<<"x">>), Text(<<"2">>)>>,
               <<Text(<<"!">> \o ADD), Text(<<"1">>)>>,
               <<Text(<<"!", "a">>)>>}}

\* echo is declared with a cooldown, the other handlers without.
NextBind ==
    \/ Connect
    \/ StartTasks
    \/ \E func \in {HandlerHelp, HandlerHello, HandlerAdd} :
           /\ mainpc = "init"
           /\ nregs < BindMaxRegs
           /\ DeclareCommand(func, None, 0, <<>>)
    \/ /\ mainpc = "init"
       /\ nregs < BindMaxRegs
       /\ DeclareCommand(HandlerEcho, None, CooldownTried, <<>>)
    \/ nframes < BindMaxFrames /\ user = NoUser /\ RecvAuthGood(UserDict(U1, None))
    \/ nframes < BindMaxFrames /\ \E d \in BindChats : RecvNewChatMsg(d)

SpecBind == Init /\ [][NextBind]_vars

\* This step routed a chat message to execute_command.
Invoked == last'.op = "new_chat_msg" /\ Len(cmdlog') = Len(cmdlog) + 1

\* C25: an invocation that does not end as Scheduled leaves the cooldown
\* cache as it was.
C25_CooldownWrittenByScheduled ==
    [][(Invoked /\ cmdlog'[Len(cmdlog')].kind # "Scheduled")
           => command_cooldown_cache' = command_cooldown_cache]_vars

\* The parameters of a declared handler after self and ctx.
Declared(name) == Tail(Tail(commands[Lower(name)][1].params))

\* C26: for an invocation of a handler declared with @command that is not
\* throttled, with parameters p1..pn after self and ctx and k raw arguments:
\* when k is less than the number of parameters without a default, the
\* invocation raises NotEnoughArguments and schedules nothing; when k < n,
\* every parameter after the k-th has a default and none is a *args
\* parameter, the handler is scheduled with those parameters bound to their
\* defaults.
C26_ArityAndDefaults ==
    [][(/\ Invoked
        /\ Lower(cmdlog'[Len(cmdlog')].name) \in DOMAIN commands
        /\ cmdlog'[Len(cmdlog')].kind # "Throttled")
       => LET entry == cmdlog'[Len(cmdlog')]
              parameters == Declared(entry.name)
              n == Len(parameters)
              k == Len(entry.args)
              required == Cardinality({i \in 1..n : ~parameters[i].has_default})
          IN  /\ k < required
                    => /\ entry.raised = "NotEnoughArguments"
                       /\ entry.scheduled = <<>>
              /\ (/\ k < n
                  /\ \A i \in (k + 1)..n : parameters[i].has_default
                  /\ \A i \in 1..n : parameters[i].kind # "VAR_POSITIONAL")
                    => /\ entry.kind = "Scheduled"
                       /\ Len(entry.scheduled) = 1
                       /\ \A i \in (k + 1)..n :
                              entry.scheduled[1].kwargs[i] =
                                  [key |-> parameters[i].key,
                                   value |-> parameters[i].default]]_vars

\* "!add 1" has failed for add(self, ctx, a: int, b: int) and "!help" has
\* scheduled help(self, _, cmd: str = None) with cmd=None.
C26_Witness ==
    /\ Len(cmdlog) = 2
    /\ cmdlog[1].name = ADD
    /\ cmdlog[1].args = <<<<"1">>>>
    /\ cmdlog[1].raised = "NotEnoughArguments"
    /\ cmdlog[1].scheduled = <<>>
    /\ cmdlog[2].name = HELP
    /\ cmdlog[2].args = <<>>
    /\ cmdlog[2].scheduled # <<>>
    /\ cmdlog[2].scheduled[1].kwargs = <<[key |-> "cmd", value |-> NoneValue]>>

\* C27: an invocation that is not throttled and gives a raw argument for
\* every parameter of a handler whose parameters are positional and annotated
\* with str, int, float or bool schedules the handler; a raw argument that is
\* a literal of the annotation (any text for str, digits for int) is bound as
\* a value of that type, any other as the string itself.
C27_BasicTypesCoerced ==
    [][(/\ Invoked
        /\ Lower(cmdlog'[Len(cmdlog')].name) \in DOMAIN commands
        /\ cmdlog'[Len(cmdlog')].kind # "Throttled"
        /\ Len(cmdlog'[Len(cmdlog')].args) = Len(Declared(cmdlog'[Len(cmdlog')].name))
        /\ \A i \in 1..Len(Declared(cmdlog'[Len(cmdlog')].name)) :
               /\ Declared(cmdlog'[Len(cmdlog')].name)[i].annotation \in BasicTypes
               /\ Declared(cmdlog'[Len(cmdlog')].name)[i].kind = "POSITIONAL_OR_KEYWORD")
       => LET entry == cmdlog'[Len(cmdlog')]
              parameters == Declared(entry.name)
          IN  /\ entry.kind = "Scheduled"
              /\ Len(entry.scheduled) = 1
              /\ \A i \in 1..Len(parameters) :
                     LET raw == Strip(entry.args[i])
                         out == parameters[i].annotation
                     IN  entry.scheduled[1].kwargs[i].value =
                             IF out = "str" \/ (out = "int" /\ IsDigits(raw))
                             THEN [ty |-> out, v |-> raw]
                             ELSE Str(raw)]_vars

\* C29: a new_chat_msg frame routes at most one invocation to
\* execute_command, and a message of another user whose content is the prefix
\* followed by a word of one character or more is routed with that word as
\* the command name.
C29_PrefixDispatch ==
    [][last'.op = "new_chat_msg" =>
          /\ Len(cmdlog') <= Len(cmdlog) + 1
          /\ LET content == ParseTokensToMessage(last'.input.tokens)
                 name == Split(From(content, Len(Prefixes[1])))[1]
             IN  (/\ user # NoUser
                  /\ last'.input.userId # user.id
                  /\ StartsWith(content, Prefixes[1])
                  /\ name # <<>>)
                 => /\ Invoked
                    /\ cmdlog'[Len(cmdlog')].name = name]_vars

\* C28: a new_chat_msg frame whose author is the session's user fires
\* on_message with the message and nothing else, schedules no command
\* handler and no on_cooldown_trigger or on_error listener, and leaves the
\* invocation log and the cooldown cache as they were.
C28_OwnMessageNotRouted ==
    [][(/\ last'.op = "new_chat_msg"
        /\ user # NoUser
        /\ last'.input.userId = user.id)
       => /\ last'.fired = <<Event(ON_MESSAGE, <<MessageFromDict(last'.input)>>)>>
          /\ \A k \in 1..Len(last'.scheduled) : last'.scheduled[k].fn = ON_MESSAGE
          /\ cmdlog' = cmdlog
          /\ command_cooldown_cache' = command_cooldown_cache]_vars

\* The session's user has sent "!help" while help is a registered command.
C28_Witness ==
    /\ last.op = "new_chat_msg"
    /\ user # NoUser
    /\ last.input.userId = user.id
    /\ last.input.tokens = <<Text(<<"!">> \o HELP)>>
    /\ HELP \in DOMAIN commands
    /\ Len(last.fired) = 1

\* ------------------------------------------------- listeners and waiters

NextListen ==
    \/ Connect
    \/ StartTasks
    \/ mainpc = "init" /\ ON_USER_BAN \notin DOMAIN listeners /\ DeclareEvent(ON_USER_BAN)
    \/ \E name \in {USER_BAN, MESSAGE_DELETE} :
           /\ mainpc = "heartbeat"
           /\ uuid < ListenMaxIds
           /\ WaitFor(name, 1, 1, "None", "None")
    \/ \E w \in DOMAIN waiters : WaitPoll(w)
    \/ nframes < ListenMaxFrames /\ \E u \in {U1, U2} : RecvChatUserBanned(u)
    \/ nframes < ListenMaxFrames /\ RecvMessageDeleted(U1, M1)

SpecListen == Init /\ [][NextListen]_vars

\* The arguments of the events of a sequence that have the base name.
RECURSIVE Occurrences(_, _)
Occurrences(events, base) ==
    IF events = <<>> THEN <<>>
    ELSE (IF From(Head(events).name, 3) = base THEN <<Head(events).args>> ELSE <<>>)
         \o Occurrences(Tail(events), base)

\* The arguments, after the session, of the calls of the listener of the
\* base name among the tasks of a sequence.
RECURSIVE Invocations(_, _)
Invocations(tasks, base) ==
    IF tasks = <<>> THEN <<>>
    ELSE (IF From(Head(tasks).fn, 3) = base THEN <<Tail(Head(tasks).args)>> ELSE <<>>)
         \o Invocations(Tail(tasks), base)

\* C30: when a frame is handled, the buffer of every waiter registered under
\* a base name grows by exactly the arguments of the events of that name the
\* frame fires, in order, whether the event has a listener or not; and when
\* it has one, the listener is called with the same arguments in the same
\* order.
C30_WaitersSeeWhatListenersSee ==
    [][nframes' = nframes + 1 =>
          \A base \in DOMAIN waiting_for :
              \A k \in 1..Len(waiting_for[base]) :
                  LET w == waiting_for[base][k]
                      occurred == Occurrences(last'.fired, base)
                  IN  /\ Buffer(waiting_for_fetches', w)
                             = Buffer(waiting_for_fetches, w) \o occurred
                      /\ (<<"o", "n", "_">> \o base) \in DOMAIN listeners
                             => Invocations(last'.scheduled, base) = occurred]_vars

\* Two user_ban waiters have each buffered two events while on_user_ban had
\* a listener, which the second frame has just invoked.
C30_Witness ==
    /\ last.op = "chat_user_banned"
    /\ ON_USER_BAN \in DOMAIN listeners
    /\ Len(last.scheduled) = 1
    /\ USER_BAN \in DOMAIN waiting_for
    /\ Len(waiting_for[USER_BAN]) = 2
    /\ \A k \in 1..Len(waiting_for[USER_BAN]) :
           Len(Buffer(waiting_for_fetches, waiting_for[USER_BAN][k])) = 2

\* ------------------------------------------------------------ every operation

Next ==
    \/ NextFetch
    \/ NextWait
    \/ NextWaitScan
    \/ NextCmd
    \/ NextReg
    \/ NextBound
    \/ NextRoster
    \/ NextLife
    \/ NextErr
    \/ NextSend
    \/ NextUsers
    \/ NextGreet
    \/ NextBind
    \/ NextListen
    \/ NextSpell
    \/ NextAdmin
    \/ NextJoin
    \/ NextSession
    \/ NextHandlers

Spec == Init /\ [][Next]_vars

====
